---- MODULE Spec2Model ----
(***************************************************************************)
(* Lyric video studio: the per-frame compositor (Visualizer.animate), the  *)
(* text transition windows, the particle field, and the capture/export     *)
(* pipeline (startRecording / stopRecording / recorder.onstop) together    *)
(* with the audio element and the React state of LyricStudio that drive    *)
(* them.                                                                   *)
(*                                                                         *)
(* Units.  Times are integers counted in ticks of 0.1 s (the step of the   *)
(* transition-duration slider).  Real-valued drawing parameters (opacity,  *)
(* scale, blur, beat factor) are fixed-point integers with Scale = 1.0.    *)
(* A linear progress value is kept exactly, as the pair num/den.           *)
(***************************************************************************)
EXTENDS Integers, Sequences, FiniteSets, TLC

VARIABLES
    lyrics,        \* LyricStudio state `lyrics`: sequence of [startTime, endTime, translation]
    settings,      \* LyricStudio state `settings` (VisualSettings)
    currentTime,   \* LyricStudio state `currentTime`, read by animate through stateRef
    particles,     \* particlesRef.current
    canvasWidth,   \* logical canvas width (height is width * 9/16)
    bgImageRef,    \* bgImageRef.current: 0 = null, otherwise the loaded image
    bgVideoReady,  \* bgVideoRef.current.readyState >= 2
    frame,         \* the drawing operations issued by the step just taken (NoFrame if it was not a frame)
    rafScheduled,  \* a frame callback is scheduled (requestRef.current is live)
    audioSrc,      \* LyricStudio state `audioSrc` is set (an audio file was uploaded)
    audio,         \* the <audio> element: [playing, pos, ended]
    isPlaying,     \* LyricStudio state `isPlaying`
    graph,         \* audioContextRef/analyserRef/sourceRef of the mounted Visualizer: 0 = the refs are null, 1 = they hold the audio graph
    recorders,     \* every MediaRecorder constructed so far: sequence of [state, pending]
    mediaRecorderRef, \* mediaRecorderRef.current: 0 = null, otherwise an index into recorders
    chunksRef,     \* chunksRef.current: sequence of chunk owners (recorder indices)
    files,         \* downloads triggered so far: sequence of [recorder, chunks]
    recording,     \* Visualizer state `recording`
    isExporting,   \* LyricStudio state `isExporting`
    showSyncOverlay, \* LyricStudio state `showSyncOverlay`
    imageLoads,    \* background images whose `new Image()` is still loading (onload not yet fired)
    contexts,      \* number of AudioContext objects constructed for the audio element so far
    currentSyncIndex, \* LyricStudio state `currentSyncIndex` (0-based)
    syncView,      \* currentSyncIndex and lyrics.length as captured by the markCurrentLine of the last committed render
    syncHist,      \* history: the timeline when sync mode was last started and the times of the taps made since
    ui,            \* the state values of the last committed render: [audioSrc, recording, isExporting, showSyncOverlay, isPlaying]
    last           \* history: the pipeline handler run by the step just taken and its outcome (NoOp for any other step)

vars == << lyrics, settings, currentTime, particles, canvasWidth, bgImageRef,
           bgVideoReady, frame, rafScheduled, audioSrc, audio, isPlaying, graph,
           recorders, mediaRecorderRef, chunksRef, files, recording,
           isExporting, showSyncOverlay, imageLoads, contexts, currentSyncIndex,
           syncView, syncHist, ui, last >>

renderVars == << lyrics, settings, currentTime, particles, canvasWidth,
                 bgImageRef, bgVideoReady, rafScheduled >>

exportVars == << audioSrc, audio, isPlaying, graph, recorders,
                 mediaRecorderRef, chunksRef, files, recording, isExporting,
                 showSyncOverlay, ui >>

syncVars == << currentSyncIndex, syncView, syncHist >>

(***************************************************************************)
(* Bounds of the model.                                                    *)
(***************************************************************************)
MaxTime == 3          \* lyric times and the playback clock range over 0..MaxTime(+MaxTD)
MaxTD == 2            \* transition durations 1..MaxTD ticks (slider: 0.1 s .. 2.0 s)
MaxRecorders == 3     \* MediaRecorder objects constructed in one run
Duration == 2         \* length of the uploaded audio, in ticks
MaxParticles == 2     \* the particle-count slider ranges over 0..MaxParticles
SeekStep == 1         \* the jump of the seek buttons (5 s in the source), in ticks of the audio
MaxContexts == 3      \* AudioContext objects constructed in one run
MaxTaps == 3          \* taps followed in one sync session

(***************************************************************************)
(* Program constants.                                                      *)
(***************************************************************************)
Scale == 1000                 \* fixed-point 1.0
DefaultTransition == 5        \* `settings.transitionDuration || 0.5`, in ticks
DefaultFontSize == 60
BackC1 == 1702                \* easeOutBack c1 = 1.70158
FadeBlur == 4
SlideBlur == 3
ZoomBlur == 2

AnimationTypes == {"FADE", "SLIDE_UP", "ZOOM", "BOUNCE"}
ThemeStyles == {"NEON", "MINIMAL", "NATURE", "FIERY"}

Min(a, b) == IF a < b THEN a ELSE b
Max(a, b) == IF a > b THEN a ELSE b

(***************************************************************************)
(* Easing functions, on the exact progress num/den, result in fixed point. *)
(***************************************************************************)
CosTable ==
    << 1000, 999, 995, 988, 978, 966, 951, 934, 914, 891, 866, 839, 809, 777,
       743, 707, 669, 629, 588, 545, 500, 454, 407, 358, 309, 259, 208, 156,
       105, 52, 0, -52, -105, -156, -208, -259, -309, -358, -407, -454, -500,
       -545, -588, -629, -669, -707, -743, -777, -809, -839, -866, -891, -914,
       -934, -951, -966, -978, -988, -995, -999, -1000 >>

\* Resolution of CosTable: entry k + 1 is cos(pi * k / SineSteps).
SineSteps == Len(CosTable) - 1

\* Math.cos(Math.PI * num/den)
CosPi(num, den) == CosTable[((num * SineSteps) \div den) + 1]

\* The enter easing without its curve: the linear progress itself.
easeOutCubic_Linear(num, den) == (Scale * num) \div den

\* 1 - Math.pow(1 - x, 3)
easeOutCubic(num, den) ==
    Scale - (Scale * (den - num) * (den - num) * (den - num)) \div (den * den * den)

\* -(Math.cos(Math.PI * x) - 1) / 2
easeInOutSine(num, den) == (Scale - CosPi(num, den)) \div 2

\* 1 + c3 * (x-1)^3 + c1 * (x-1)^2, c3 = c1 + 1
easeOutBack(num, den) ==
    LET d == num - den
        c3 == BackC1 + Scale
    IN  Scale + (c3 * d * d * d) \div (den * den * den)
              + (BackC1 * d * d) \div (den * den)

(***************************************************************************)
(* Text transitions.                                                       *)
(***************************************************************************)
\* const transitionDuration = settings.transitionDuration || 0.5
TransitionDuration(s) ==
    IF s.transitionDuration = 0 THEN DefaultTransition ELSE s.transitionDuration

\* LinePhase with the enter test made strict (t > startTime).
LinePhase_StrictStart(line, t, td) ==
    IF t > line.startTime /\ t < line.endTime
    THEN IF t - line.startTime < td THEN "enter" ELSE "active"
    ELSE IF t >= line.endTime /\ t < line.endTime + td THEN "exit" ELSE "none"

\* LinePhase with the enter window closed on the right (timeSinceStart <= td).
LinePhase_LongEnter(line, t, td) ==
    IF t >= line.startTime /\ t < line.endTime
    THEN IF t - line.startTime <= td THEN "enter" ELSE "active"
    ELSE IF t >= line.endTime /\ t < line.endTime + td THEN "exit" ELSE "none"

\* LinePhase with the line still current at its end time (t <= endTime).
LinePhase_ClosedEnd(line, t, td) ==
    IF t >= line.startTime /\ t <= line.endTime
    THEN IF t - line.startTime < td THEN "enter" ELSE "active"
    ELSE IF t > line.endTime /\ t < line.endTime + td THEN "exit" ELSE "none"

\* LinePhase with the exit window closed on the right (t <= endTime + td).
LinePhase_LongExit(line, t, td) ==
    IF t >= line.startTime /\ t < line.endTime
    THEN IF t - line.startTime < td THEN "enter" ELSE "active"
    ELSE IF t >= line.endTime /\ t <= line.endTime + td THEN "exit" ELSE "none"

\* The branch of the lyrics.forEach body taken for one line at time t:
\* which phase drawLine is called with, "none" when drawLine is not called.
LinePhase(line, t, td) ==
    IF t >= line.startTime /\ t < line.endTime
    THEN IF t - line.startTime < td THEN "enter" ELSE "active"
    ELSE IF t >= line.endTime /\ t < line.endTime + td THEN "exit" ELSE "none"

\* LineProgress with the enter progress measured as the time left in the window.
LineProgress_Reversed(line, t, td) ==
    CASE LinePhase(line, t, td) = "enter" -> [num |-> td - (t - line.startTime), den |-> td]
      [] LinePhase(line, t, td) = "active" -> [num |-> 1, den |-> 1]
      [] LinePhase(line, t, td) = "exit" -> [num |-> t - line.endTime, den |-> td]
      [] OTHER -> [num |-> 0, den |-> 1]

\* LineProgress with the exit progress measured as the time left in the window.
LineProgress_ExitRemaining(line, t, td) ==
    CASE LinePhase(line, t, td) = "enter" -> [num |-> t - line.startTime, den |-> td]
      [] LinePhase(line, t, td) = "active" -> [num |-> 1, den |-> 1]
      [] LinePhase(line, t, td) = "exit" -> [num |-> td - (t - line.endTime), den |-> td]
      [] OTHER -> [num |-> 0, den |-> 1]

\* The progress argument of that drawLine call, as num/den.
LineProgress(line, t, td) ==
    CASE LinePhase(line, t, td) = "enter" -> [num |-> t - line.startTime, den |-> td]
      [] LinePhase(line, t, td) = "active" -> [num |-> 1, den |-> 1]
      [] LinePhase(line, t, td) = "exit" -> [num |-> t - line.endTime, den |-> td]
      [] OTHER -> [num |-> 0, den |-> 1]

\* The parameters without a steady state: whatever is not entering is
\* treated as exiting, for the Fade animation only.
TextParams_ActiveAsExit(phase, num, den, s) ==
    LET t == IF phase = "enter" THEN easeOutCubic(num, den)
             ELSE Scale - easeInOutSine(num, den)
    IN  [alpha |-> t, scale |-> Scale, yOffset |-> 0, blurAmount |-> (Scale - t) * FadeBlur]

\* alpha, scale, yOffset, blurAmount as drawLine computes them.
TextParams(phase, num, den, s) ==
    LET animType == s.animationType
        fontBasedOffset == (s.fontSize * 3) \div 2
        steady == [alpha |-> Scale, scale |-> Scale, yOffset |-> 0, blurAmount |-> 0]
    IN  IF phase = "enter"
        THEN LET t == easeOutCubic(num, den) IN
             CASE animType = "FADE" ->
                    [steady EXCEPT !.alpha = t, !.blurAmount = (Scale - t) * FadeBlur]
               [] animType = "SLIDE_UP" ->
                    [steady EXCEPT !.alpha = t,
                                   !.yOffset = fontBasedOffset * (Scale - t),
                                   !.blurAmount = (Scale - t) * SlideBlur]
               [] animType = "ZOOM" ->
                    [steady EXCEPT !.alpha = t,
                                   !.scale = 800 + (200 * t) \div Scale,
                                   !.blurAmount = (Scale - t) * ZoomBlur]
               [] animType = "BOUNCE" ->
                    [steady EXCEPT !.alpha = Min(Scale, (3 * num * Scale) \div den),
                                   !.scale = 500 + easeOutBack(num, den) \div 2]
               [] OTHER -> steady
        ELSE IF phase = "exit"
        THEN LET t == easeInOutSine(num, den) IN
             CASE animType = "FADE" ->
                    [steady EXCEPT !.alpha = Scale - t, !.blurAmount = t * FadeBlur]
               [] animType = "SLIDE_UP" ->
                    [steady EXCEPT !.alpha = Scale - t,
                                   !.yOffset = 0 - fontBasedOffset * t,
                                   !.blurAmount = t * SlideBlur]
               [] animType = "ZOOM" ->
                    [steady EXCEPT !.alpha = Scale - t,
                                   !.scale = Scale + (300 * t) \div Scale,
                                   !.blurAmount = t * ZoomBlur]
               [] animType = "BOUNCE" ->
                    [steady EXCEPT !.alpha = Scale - t,
                                   !.scale = Scale - (300 * t) \div Scale]
               [] OTHER -> steady
        ELSE steady

\* shadowBlur set before the main text is drawn.
ShadowBlur(s, beatFactor) ==
    IF s.style /= "MINIMAL"
    THEN Max(0, (IF s.style = "NEON" THEN 20 ELSE 10) * Scale + 30 * (beatFactor - Scale))
    ELSE 0

\* shadowColor set before the main text is drawn.
ShadowColor(s) ==
    IF s.style /= "MINIMAL"
    THEN (IF s.style = "FIERY" THEN "#ea580c" ELSE "primaryColor")
    ELSE "transparent"

\* The canvas state of the translation with the filter and the shadow of the
\* main text left in place.
TranslationState_Inherited(globalAlpha, filterBlur, shadowBlur) ==
    [globalAlpha |-> globalAlpha, filterBlur |-> filterBlur, shadowBlur |-> shadowBlur]

\* ctx.shadowBlur = 0; ctx.filter = 'none' before the translation is filled;
\* globalAlpha is the one set for the main text.
TranslationState(globalAlpha, filterBlur, shadowBlur) ==
    [globalAlpha |-> globalAlpha, filterBlur |-> 0, shadowBlur |-> 0]

\* drawLine with the scale of the text following the beat.
drawLine_BeatScaled(idx, line, phase, num, den, s, beatFactor) ==
    LET p == TextParams(phase, num, den, s) IN
    [ idx |-> idx, phase |-> phase, num |-> num, den |-> den,
      alpha |-> p.alpha, scale |-> (p.scale * beatFactor) \div Scale,
      yOffset |-> p.yOffset, blurAmount |-> p.blurAmount,
      globalAlpha |-> Max(0, Min(Scale, p.alpha)),
      filterBlur |-> IF p.blurAmount * 2 > Scale THEN p.blurAmount ELSE 0,
      shadowColor |-> ShadowColor(s),
      shadowBlur |-> ShadowBlur(s, beatFactor),
      translation |-> s.showTranslation /\ line.translation,
      translationState |->
          TranslationState(Max(0, Min(Scale, p.alpha)),
                           IF p.blurAmount * 2 > Scale THEN p.blurAmount ELSE 0,
                           ShadowBlur(s, beatFactor)) ]

\* One drawLine call: the canvas state the main text is drawn with, whether
\* the translation is drawn, and the canvas state it is drawn with.
drawLine(idx, line, phase, num, den, s, beatFactor) ==
    LET p == TextParams(phase, num, den, s) IN
    [ idx |-> idx, phase |-> phase, num |-> num, den |-> den,
      alpha |-> p.alpha, scale |-> p.scale, yOffset |-> p.yOffset,
      blurAmount |-> p.blurAmount,
      globalAlpha |-> Max(0, Min(Scale, p.alpha)),
      filterBlur |-> IF p.blurAmount * 2 > Scale THEN p.blurAmount ELSE 0,
      shadowColor |-> ShadowColor(s),
      shadowBlur |-> ShadowBlur(s, beatFactor),
      translation |-> s.showTranslation /\ line.translation,
      translationState |->
          TranslationState(Max(0, Min(Scale, p.alpha)),
                           IF p.blurAmount * 2 > Scale THEN p.blurAmount ELSE 0,
                           ShadowBlur(s, beatFactor)) ]

\* lyrics.forEach(...): the drawLine calls of one frame, in timeline order.
TextLayer(ls, t, s, beatFactor) ==
    LET td == TransitionDuration(s)
        call(i) == drawLine(i, ls[i], LinePhase(ls[i], t, td),
                            LineProgress(ls[i], t, td).num,
                            LineProgress(ls[i], t, td).den, s, beatFactor)
        all == [i \in 1..Len(ls) |-> call(i)]
    IN  SelectSeq(all, LAMBDA d : d.phase /= "none")

(***************************************************************************)
(* Frequency analyser.  A snapshot is given by the level of its low band   *)
(* (the first LowBins bins) and the level of the remaining bins.           *)
(***************************************************************************)
LowBins == 20
ByteMax == 255
Levels == {0, ByteMax \div 2, ByteMax}
Snapshots == [low : Levels, high : Levels]
NoSnapshot == [low |-> 0, high |-> 0]

\* beatFactor with the sensitivity term subtracted instead of added.
BeatFactor_Inverted(hasAnalyser, snap, s) ==
    IF hasAnalyser
    THEN Scale - (snap.low * s.beatSensitivity) \div ByteMax
    ELSE Scale

\* let beatFactor = 1.0; if (analyserRef.current) { ... }
BeatFactor(hasAnalyser, snap, s) ==
    IF hasAnalyser
    THEN LET sum == LowBins * snap.low
             average == sum \div LowBins
         IN  Scale + (average * s.beatSensitivity) \div ByteMax
    ELSE Scale

CanvasHeight(w) == (w * 9) \div 16

\* barHeight of a bin of magnitude m, in fixed-point pixels.
BarHeight(m, height, beatFactor) ==
    (((m * ((height * Scale) \div 3)) \div ByteMax) * beatFactor) \div Scale

\* The bar loop run whether or not an analyser exists.
BarLayer_WithoutAnalyser(hasAnalyser, snap, height, beatFactor) ==
    << BarHeight(snap.low, height, beatFactor), BarHeight(snap.high, height, beatFactor) >>

\* The frequency bars of one frame: none without an analyser.
BarLayer(hasAnalyser, snap, height, beatFactor) ==
    IF hasAnalyser
    THEN << BarHeight(snap.low, height, beatFactor), BarHeight(snap.high, height, beatFactor) >>
    ELSE << >>

(***************************************************************************)
(* Background layer.                                                       *)
(***************************************************************************)
\* The background with the image tested before the video.
BackgroundLayer_ImageFirst(s, videoReady, image) ==
    IF image /= 0
    THEN [kind |-> "image", source |-> image, overlay |-> TRUE]
    ELSE IF s.backgroundVideo /= 0 /\ videoReady
    THEN [kind |-> "video", source |-> s.backgroundVideo, overlay |-> TRUE]
    ELSE [kind |-> "color", source |-> 0, overlay |-> FALSE]

\* if (settings.backgroundVideo && readyState >= 2) video + overlay
\* else if (bgImageRef.current) image + overlay else flat fill.
BackgroundLayer(s, videoReady, image) ==
    IF s.backgroundVideo /= 0 /\ videoReady
    THEN [kind |-> "video", source |-> s.backgroundVideo, overlay |-> TRUE]
    ELSE IF image /= 0
    THEN [kind |-> "image", source |-> image, overlay |-> TRUE]
    ELSE [kind |-> "color", source |-> 0, overlay |-> FALSE]

(***************************************************************************)
(* Particle field.                                                         *)
(***************************************************************************)
\* Math.random() * 100 + 100 frames, in fixed point and scaled down to a few
\* frames: a whole number of frames and a fractional one.
MaxLifeValues == {2 * Scale, (5 * Scale) \div 2}
Velocities == {-1, 1}         \* stands for (Math.random() - 0.5) * 1
\* Math.random() > 0.5 ? primaryColor : secondaryColor.  The colour only selects
\* the fill style of the dot, so the field is explored with one of the two.
Colors == {"primary"}

\* Math.random() * extent, in fixed-point pixels: the two ends of [0, extent).
RandomPositions(extent) == {0, Max(extent - 1, 0) * Scale}

\* new Particle(w, h, color)
NewParticles(w, h) ==
    [x : RandomPositions(w), y : RandomPositions(h), vx : Velocities, vy : Velocities,
     color : Colors, life : {0}, maxLife : MaxLifeValues]

\* Particle.update(width, height, beatFactor); positions are fixed-point
\* pixels, velocities whole pixels per frame.
ParticleUpdate(p, width, height, beatFactor) ==
    LET x1 == p.x + p.vx * beatFactor
        y1 == p.y + p.vy * beatFactor
    IN  [p EXCEPT !.x = x1, !.y = y1, !.life = p.life + 1,
                  !.vx = IF x1 < 0 \/ x1 > width * Scale THEN 0 - p.vx ELSE p.vx,
                  !.vy = IF y1 < 0 \/ y1 > height * Scale THEN 0 - p.vy ELSE p.vy]

\* Particle.draw: alpha = 1 - life / maxLife
ParticleAlpha(p) == Scale - (p.life * Scale * Scale) \div p.maxLife

RemoveAt(seq, k) == SubSeq(seq, 1, k - 1) \o SubSeq(seq, k + 1, Len(seq))

\* The particle loop without the splice: every particle is stepped and drawn
\* and all of them stay in the field.
ParticleLoop_KeepsExpired(ps, k, drawn, width, height, beatFactor) ==
    [particles |-> [i \in 1..Len(ps) |-> ParticleUpdate(ps[i], width, height, beatFactor)],
     drawn |-> [i \in 1..Len(ps) |->
                   ParticleAlpha(ParticleUpdate(ps[i], width, height, beatFactor))]]

\* particlesRef.current.forEach((p, index) => { update; draw; splice if expired }):
\* forEach visits index k only while k is inside the array, which splice shortens.
RECURSIVE ParticleLoop(_, _, _, _, _, _)
ParticleLoop(ps, k, drawn, width, height, beatFactor) ==
    IF k > Len(ps)
    THEN [particles |-> ps, drawn |-> drawn]
    ELSE LET p == ParticleUpdate(ps[k], width, height, beatFactor)
             updated == [ps EXCEPT ![k] = p]
             kept == IF p.life * Scale >= p.maxLife THEN RemoveAt(updated, k) ELSE updated
         IN  ParticleLoop(kept, k + 1, Append(drawn, ParticleAlpha(p)),
                          width, height, beatFactor)

\* if (particlesRef.current.length < settings.particleCount) push(new Particle(...))
SpawnChoices(ps, s, width, height) ==
    IF Len(ps) < s.particleCount
    THEN {Append(ps, p) : p \in NewParticles(width, height)}
    ELSE {ps}

\* One tag per canvas call of a layer, n calls in a row.
Calls(tag, n) == [i \in 1..n |-> tag]

\* The frame with the text lines drawn before the frequency bars.
DrawOrder_TextBeforeBars(background, spawns, particleDraws, bars, lines) ==
    << "clear" >> \o Calls("background", IF background.overlay THEN 2 ELSE 1)
        \o Calls("particles", spawns + particleDraws)
        \o Calls("text", lines) \o Calls("bars", bars)

\* The canvas calls of one frame in the order animate issues them: clearRect,
\* the background draw (and its overlay), the particle push and the
\* update/draw of each visited particle, one fillRect per bar, one drawLine
\* per visible line.
DrawOrder(background, spawns, particleDraws, bars, lines) ==
    << "clear" >> \o Calls("background", IF background.overlay THEN 2 ELSE 1)
        \o Calls("particles", spawns + particleDraws)
        \o Calls("bars", bars) \o Calls("text", lines)

NoFrame == [drawn |-> FALSE]
NoOp == [op |-> "none", outcome |-> "none"]

(***************************************************************************)
(* Initial state: LyricStudio and Visualizer as constructed.               *)
(***************************************************************************)
\* SAMPLE_LYRICS shortened to the modelled time range: two consecutive lines.
SampleLyrics ==
    << [startTime |-> 0, endTime |-> 2, translation |-> TRUE],
       [startTime |-> 2, endTime |-> 4, translation |-> TRUE] >>

\* DEFAULT_SETTINGS restricted to the fields animate reads.  Two values are
\* scaled into the modelled range: transitionDuration (0.6 s in the source)
\* starts at one tick and is then set freely by SetTransitionDuration, and
\* particleCount (50 in the source) starts at the minimum of its slider.
DefaultSettings ==
    [ transitionDuration |-> 1, animationType |-> "SLIDE_UP", style |-> "NEON",
      fontSize |-> DefaultFontSize, particleCount |-> 0,   \* particle slider at its minimum
      beatSensitivity |-> Scale, showTranslation |-> FALSE,
      backgroundImage |-> 0, backgroundVideo |-> 0 ]

Init ==
    /\ lyrics = SampleLyrics
    /\ settings = DefaultSettings
    /\ currentTime = 0
    /\ particles = << >>
    /\ canvasWidth = 16
    /\ bgImageRef = 0
    /\ bgVideoReady = FALSE
    /\ frame = NoFrame
    /\ rafScheduled = FALSE
    /\ audioSrc = FALSE
    /\ audio = [playing |-> FALSE, pos |-> 0, ended |-> FALSE]
    /\ isPlaying = FALSE
    /\ graph = 0
    /\ recorders = << >>
    /\ mediaRecorderRef = 0
    /\ chunksRef = << >>
    /\ files = << >>
    /\ recording = FALSE
    /\ isExporting = FALSE
    /\ showSyncOverlay = FALSE
    /\ imageLoads = {}
    /\ currentSyncIndex = 0
    /\ syncView = [index |-> 0, length |-> Len(lyrics)]
    /\ syncHist = [entry |-> lyrics, taps |-> << >>]
    /\ contexts = 0
    /\ ui = [audioSrc |-> FALSE, recording |-> FALSE, isExporting |-> FALSE,
             showSyncOverlay |-> FALSE, isPlaying |-> FALSE]
    /\ last = NoOp

(***************************************************************************)
(* The frame callback.                                                     *)
(***************************************************************************)
\* getContext('2d') may return null; animate then returns before it reaches
\* requestAnimationFrame.
AnimateReturnsEarly ==
    /\ rafScheduled' = FALSE
    /\ frame' = NoFrame
    /\ last' = [op |-> "animate", outcome |-> "returned"]
    /\ UNCHANGED particles

Animate ==
    /\ rafScheduled
    /\ \E ctx \in BOOLEAN, snap1 \in (IF graph = 0 THEN {NoSnapshot} ELSE Snapshots),
          snap2 \in (IF graph = 0 THEN {NoSnapshot} ELSE Snapshots),
          spawned \in SpawnChoices(particles, settings, canvasWidth, CanvasHeight(canvasWidth)) :
          LET width == canvasWidth
              height == CanvasHeight(canvasWidth)
              beatFactor == BeatFactor(graph /= 0, snap1, settings)
              loop == ParticleLoop(spawned, 1, << >>, width, height, beatFactor)
              background == BackgroundLayer(settings, bgVideoReady, bgImageRef)
              bars == BarLayer(graph /= 0, snap2, height, beatFactor)
              lines == TextLayer(lyrics, currentTime, settings, beatFactor)
          IN  IF ~ctx THEN AnimateReturnsEarly ELSE
              /\ rafScheduled' = TRUE
              /\ last' = [op |-> "animate", outcome |-> "drawn"]
              /\ particles' = loop.particles
              /\ frame' = [ drawn |-> TRUE,
                            time |-> currentTime,
                            beatFactor |-> beatFactor,
                            lowMean |-> snap1.low,
                            order |-> DrawOrder(background, Len(spawned) - Len(particles),
                                                Len(loop.drawn), Len(bars), Len(lines)),
                            background |-> background,
                            particleAlphas |-> loop.drawn,
                            bars |-> bars,
                            lines |-> lines ]
    /\ UNCHANGED << lyrics, settings, currentTime, canvasWidth, bgImageRef, bgVideoReady >>
    /\ UNCHANGED << imageLoads, contexts >>
    /\ UNCHANGED syncVars
    /\ UNCHANGED exportVars

(***************************************************************************)
(* Lyric editor and settings panel (the producers of the renderer's props). *)
(***************************************************************************)
\* Lyric editor, start-time field onBlur: any parseable number is accepted.
EditStartTime(idx, val) ==
    /\ idx \in 1..Len(lyrics)
    /\ lyrics' = [lyrics EXCEPT ![idx].startTime = val]
    /\ frame' = NoFrame
    /\ UNCHANGED syncVars
    /\ UNCHANGED << imageLoads, contexts >>
    /\ last' = NoOp
    /\ UNCHANGED << settings, currentTime, particles, canvasWidth, bgImageRef,
                    bgVideoReady, rafScheduled >>
    /\ UNCHANGED exportVars

\* Lyric editor, end-time field onBlur.
EditEndTime(idx, val) ==
    /\ idx \in 1..Len(lyrics)
    /\ lyrics' = [lyrics EXCEPT ![idx].endTime = val]
    /\ frame' = NoFrame
    /\ UNCHANGED syncVars
    /\ UNCHANGED << imageLoads, contexts >>
    /\ last' = NoOp
    /\ UNCHANGED << settings, currentTime, particles, canvasWidth, bgImageRef,
                    bgVideoReady, rafScheduled >>
    /\ UNCHANGED exportVars

\* handleSrtUpload: a parsed timeline with at least one line replaces the lyrics.
SrtUpload(parsed) ==
    /\ Len(parsed) > 0
    /\ lyrics' = parsed
    /\ frame' = NoFrame
    /\ UNCHANGED syncVars
    /\ UNCHANGED << imageLoads, contexts >>
    /\ last' = NoOp
    /\ UNCHANGED << settings, currentTime, particles, canvasWidth, bgImageRef,
                    bgVideoReady, rafScheduled >>
    /\ UNCHANGED exportVars

\* Controls: transition-duration slider (min 0.1, max 2.0, step 0.1).
SetTransitionDuration(val) ==
    /\ settings' = [settings EXCEPT !.transitionDuration = val]
    /\ frame' = NoFrame
    /\ UNCHANGED syncVars
    /\ UNCHANGED << imageLoads, contexts >>
    /\ last' = NoOp
    /\ UNCHANGED << lyrics, currentTime, particles, canvasWidth, bgImageRef,
                    bgVideoReady, rafScheduled >>
    /\ UNCHANGED exportVars

\* Controls: animation type selector.
SetAnimationType(val) ==
    /\ settings' = [settings EXCEPT !.animationType = val]
    /\ frame' = NoFrame
    /\ UNCHANGED syncVars
    /\ UNCHANGED << imageLoads, contexts >>
    /\ last' = NoOp
    /\ UNCHANGED << lyrics, currentTime, particles, canvasWidth, bgImageRef,
                    bgVideoReady, rafScheduled >>
    /\ UNCHANGED exportVars

\* Controls: theme style buttons.
SetStyle(val) ==
    /\ settings' = [settings EXCEPT !.style = val]
    /\ frame' = NoFrame
    /\ UNCHANGED syncVars
    /\ UNCHANGED << imageLoads, contexts >>
    /\ last' = NoOp
    /\ UNCHANGED << lyrics, currentTime, particles, canvasWidth, bgImageRef,
                    bgVideoReady, rafScheduled >>
    /\ UNCHANGED exportVars

\* Controls: font-size slider (min 20, max 120).
SetFontSize(val) ==
    /\ settings' = [settings EXCEPT !.fontSize = val]
    /\ frame' = NoFrame
    /\ UNCHANGED syncVars
    /\ UNCHANGED << imageLoads, contexts >>
    /\ last' = NoOp
    /\ UNCHANGED << lyrics, currentTime, particles, canvasWidth, bgImageRef,
                    bgVideoReady, rafScheduled >>
    /\ UNCHANGED exportVars

\* Controls: show-translation checkbox.
SetShowTranslation(val) ==
    /\ settings' = [settings EXCEPT !.showTranslation = val]
    /\ frame' = NoFrame
    /\ UNCHANGED syncVars
    /\ UNCHANGED << imageLoads, contexts >>
    /\ last' = NoOp
    /\ UNCHANGED << lyrics, currentTime, particles, canvasWidth, bgImageRef,
                    bgVideoReady, rafScheduled >>
    /\ UNCHANGED exportVars

\* Controls: particle-count slider (min 0, max 200 in the source).
SetParticleCount(val) ==
    /\ settings' = [settings EXCEPT !.particleCount = val]
    /\ frame' = NoFrame
    /\ UNCHANGED syncVars
    /\ UNCHANGED << imageLoads, contexts >>
    /\ last' = NoOp
    /\ UNCHANGED << lyrics, currentTime, particles, canvasWidth, bgImageRef,
                    bgVideoReady, rafScheduled >>
    /\ UNCHANGED exportVars

\* Controls: beat-sensitivity slider (min 0, max 2, step 0.1).
SetBeatSensitivity(val) ==
    /\ settings' = [settings EXCEPT !.beatSensitivity = val]
    /\ frame' = NoFrame
    /\ UNCHANGED syncVars
    /\ UNCHANGED << imageLoads, contexts >>
    /\ last' = NoOp
    /\ UNCHANGED << lyrics, currentTime, particles, canvasWidth, bgImageRef,
                    bgVideoReady, rafScheduled >>
    /\ UNCHANGED exportVars

\* The resize handler without `particlesRef.current = []`.
Resize_KeepsParticles(w) ==
    /\ ui.audioSrc
    /\ canvasWidth' = w
    /\ particles' = particles
    /\ frame' = NoFrame
    /\ UNCHANGED syncVars
    /\ UNCHANGED << imageLoads, contexts >>
    /\ last' = [op |-> "resize",
                outcome |-> IF particles = << >> THEN "wasEmpty" ELSE "wasPopulated"]
    /\ UNCHANGED << lyrics, settings, currentTime, bgImageRef, bgVideoReady,
                    rafScheduled >>
    /\ UNCHANGED exportVars

\* Window resize while the Visualizer is mounted: the canvas takes the new
\* container width and the particle field is emptied.  The outcome records
\* whether the field held particles when the handler ran.
Resize(w) ==
    /\ ui.audioSrc
    /\ canvasWidth' = w
    /\ particles' = << >>
    /\ frame' = NoFrame
    /\ UNCHANGED syncVars
    /\ UNCHANGED << imageLoads, contexts >>
    /\ last' = [op |-> "resize",
                outcome |-> IF particles = << >> THEN "wasEmpty" ELSE "wasPopulated"]
    /\ UNCHANGED << lyrics, settings, currentTime, bgImageRef, bgVideoReady,
                    rafScheduled >>
    /\ UNCHANGED exportVars

\* The playback clock as the renderer sees it: setCurrentTime(audio.currentTime).
SetCurrentTime(t) ==
    /\ currentTime' = t
    /\ frame' = NoFrame
    /\ UNCHANGED syncVars
    /\ UNCHANGED << imageLoads, contexts >>
    /\ last' = NoOp
    /\ UNCHANGED << lyrics, settings, particles, canvasWidth, bgImageRef,
                    bgVideoReady, rafScheduled >>
    /\ UNCHANGED exportVars

(***************************************************************************)
(* Background image and video.                                             *)
(***************************************************************************)
\* Data URLs of the images a user picks, and the one video a theme can name.
Images == {1, 2}
Videos == {1}

\* handleBgUpload (val /= 0) and the remove-background button (val = 0):
\* updateSettings({ backgroundImage }), then the image effect of the mounted
\* Visualizer: a new Image starts loading, or bgImageRef is cleared.  A load
\* already under way is left alone.  imageLoads keeps one entry per URL.
SetBackgroundImage(val) ==
    /\ val /= settings.backgroundImage
    /\ settings' = [settings EXCEPT !.backgroundImage = val]
    /\ imageLoads' = IF ui.audioSrc /\ val /= 0 THEN imageLoads \cup {val} ELSE imageLoads
    /\ bgImageRef' = IF ui.audioSrc /\ val = 0 THEN 0 ELSE bgImageRef
    /\ frame' = NoFrame
    /\ UNCHANGED syncVars
    /\ last' = NoOp
    /\ UNCHANGED << lyrics, currentTime, particles, canvasWidth, bgVideoReady,
                    rafScheduled, contexts >>
    /\ UNCHANGED exportVars

\* img.onload = () => { bgImageRef.current = img }
ImageLoaded(img) ==
    /\ img \in imageLoads
    /\ imageLoads' = imageLoads \ {img}
    /\ bgImageRef' = img
    /\ frame' = NoFrame
    /\ UNCHANGED syncVars
    /\ last' = NoOp
    /\ UNCHANGED << lyrics, settings, currentTime, particles, canvasWidth,
                    bgVideoReady, rafScheduled, contexts >>
    /\ UNCHANGED exportVars

\* updateSettings({ backgroundVideo }), then the video effect: the element
\* gets the new src (or loses it) and starts over at readyState 0.
SetBackgroundVideo(val) ==
    /\ val /= settings.backgroundVideo
    /\ settings' = [settings EXCEPT !.backgroundVideo = val]
    /\ bgVideoReady' = FALSE
    /\ frame' = NoFrame
    /\ UNCHANGED syncVars
    /\ last' = NoOp
    /\ UNCHANGED << lyrics, currentTime, particles, canvasWidth, bgImageRef,
                    rafScheduled, imageLoads, contexts >>
    /\ UNCHANGED exportVars

\* The video element of the mounted Visualizer reaches readyState >= 2.
VideoReady ==
    /\ ui.audioSrc
    /\ settings.backgroundVideo /= 0
    /\ ~bgVideoReady
    /\ bgVideoReady' = TRUE
    /\ frame' = NoFrame
    /\ UNCHANGED syncVars
    /\ last' = NoOp
    /\ UNCHANGED << lyrics, settings, currentTime, particles, canvasWidth,
                    bgImageRef, rafScheduled, imageLoads, contexts >>
    /\ UNCHANGED exportVars

(***************************************************************************)
(* The <audio> element.                                                    *)
(***************************************************************************)
\* HTMLMediaElement.play(): playback starts (from 0 if it had ended).
AudioPlay(a) ==
    [playing |-> TRUE, pos |-> IF a.ended THEN 0 ELSE a.pos, ended |-> FALSE]

\* HTMLMediaElement.pause()
AudioPause(a) == [a EXCEPT !.playing = FALSE]

\* AudioSeek that leaves the position where it was.
AudioSeek_Keep(a, t) == [a EXCEPT !.ended = FALSE]

\* audio.currentTime = t
AudioSeek(a, t) == [a EXCEPT !.pos = t, !.ended = FALSE]

\* onPlay / onPause / onEnded: the flag follows the element whenever the
\* element changes between playing and not playing; otherwise no event fires.
AfterMediaEvents(flag, before, after) ==
    IF before.playing /= after.playing THEN after.playing ELSE flag

(***************************************************************************)
(* React commit: the handlers and the visible controls are those of the    *)
(* last committed render; effects run with the commit.                     *)
(***************************************************************************)
CurrentView ==
    [audioSrc |-> audioSrc, recording |-> recording, isExporting |-> isExporting,
     showSyncOverlay |-> showSyncOverlay, isPlaying |-> isPlaying]

\* markCurrentLine = useCallback(..., [currentSyncIndex, lyrics.length]): the
\* values the callback of the current render closes over.
CurrentSyncView == [index |-> currentSyncIndex, length |-> Len(lyrics)]

\* initAudio(): builds the audio graph unless one exists.
initAudio(g) == IF g /= 0 THEN g ELSE g + 1

\* Commit of a re-render of LyricStudio and Visualizer, with its effects:
\* the Visualizer mounts once audioSrc is set (resize() empties the particle
\* field, the frame loop is requested, the background image effect starts
\* loading the configured image); `if (isPlaying) initAudio()`.
Render ==
    /\ ui /= CurrentView \/ syncView /= CurrentSyncView
    /\ ui' = CurrentView
    /\ syncView' = CurrentSyncView
    /\ UNCHANGED << currentSyncIndex, syncHist >>
    /\ graph' = IF audioSrc /\ isPlaying THEN initAudio(graph) ELSE graph
    /\ contexts' = IF audioSrc /\ isPlaying /\ graph = 0 THEN contexts + 1 ELSE contexts
    /\ imageLoads' = IF audioSrc /\ ~ui.audioSrc /\ settings.backgroundImage /= 0
                      THEN imageLoads \cup {settings.backgroundImage}
                      ELSE imageLoads
    /\ rafScheduled' = IF audioSrc /\ ~ui.audioSrc THEN TRUE ELSE rafScheduled
    /\ particles' = IF audioSrc /\ ~ui.audioSrc THEN << >> ELSE particles
    /\ frame' = NoFrame
    /\ last' = NoOp
    /\ UNCHANGED << lyrics, settings, currentTime, canvasWidth, bgImageRef, bgVideoReady >>
    /\ UNCHANGED << audioSrc, audio, isPlaying, recorders, mediaRecorderRef,
                    chunksRef, files, recording, isExporting, showSyncOverlay >>

\* handleAudioUpload: a new source is loaded into the audio element.
UploadAudio ==
    /\ audioSrc' = TRUE
    /\ isPlaying' = FALSE
    /\ currentTime' = 0
    /\ audio' = [playing |-> FALSE, pos |-> 0, ended |-> FALSE]
    /\ frame' = NoFrame
    /\ UNCHANGED syncVars
    /\ UNCHANGED << imageLoads, contexts >>
    /\ last' = NoOp
    /\ UNCHANGED << lyrics, settings, particles, canvasWidth, bgImageRef,
                    bgVideoReady, rafScheduled >>
    /\ UNCHANGED << graph, recorders, mediaRecorderRef, chunksRef, files,
                    recording, isExporting, showSyncOverlay, ui >>

ControlsVisible == ui.audioSrc /\ ~ui.isExporting /\ ~ui.showSyncOverlay

\* Play/pause button: `if (isPlaying) audio.pause(); else audio.play();`
TogglePlay ==
    /\ ControlsVisible
    /\ audio' = IF ui.isPlaying THEN AudioPause(audio) ELSE AudioPlay(audio)
    /\ isPlaying' = AfterMediaEvents(isPlaying, audio, audio')
    /\ frame' = NoFrame
    /\ UNCHANGED syncVars
    /\ UNCHANGED << imageLoads, contexts >>
    /\ last' = NoOp
    /\ UNCHANGED renderVars
    /\ UNCHANGED << audioSrc, graph, recorders, mediaRecorderRef, chunksRef,
                    files, recording, isExporting, showSyncOverlay, ui >>

\* Seek buttons: audio.currentTime = max(0, currentTime - 5) resp.
\* min(duration, currentTime + 5).  A playing element that is moved to its
\* end stops and fires pause and ended.
SeekTo(target) ==
    /\ ControlsVisible
    /\ audio' = IF audio.playing /\ target = Duration
                THEN [playing |-> FALSE, pos |-> Duration, ended |-> TRUE]
                ELSE AudioSeek(audio, target)
    /\ isPlaying' = AfterMediaEvents(isPlaying, audio, audio')
    /\ frame' = NoFrame
    /\ UNCHANGED syncVars
    /\ UNCHANGED << imageLoads, contexts >>
    /\ last' = [op |-> "seek",
                outcome |-> IF audio.playing \/ isPlaying THEN "playing" ELSE "paused"]
    /\ UNCHANGED renderVars
    /\ UNCHANGED << audioSrc, graph, recorders, mediaRecorderRef, chunksRef,
                    files, recording, isExporting, showSyncOverlay, ui >>

SeekBackward == SeekTo(Max(0, audio.pos - SeekStep))

SeekForward == SeekTo(Min(Duration, audio.pos + SeekStep))

\* AudioAdvance with an ended handler that also stops the current recorder.
AudioAdvance_AutoStop ==
    /\ audio.playing
    /\ audio.pos < Duration
    /\ audio' = IF audio.pos + 1 = Duration
                THEN [playing |-> FALSE, pos |-> Duration, ended |-> TRUE]
                ELSE [audio EXCEPT !.pos = audio.pos + 1]
    /\ isPlaying' = AfterMediaEvents(isPlaying, audio, audio')
    /\ recorders' = IF /\ audio'.ended /\ mediaRecorderRef /= 0
                       /\ recorders[mediaRecorderRef].state = "recording"
                    THEN [recorders EXCEPT ![mediaRecorderRef] =
                              [state |-> "inactive", pending |-> "data"]]
                    ELSE recorders
    /\ frame' = NoFrame
    /\ UNCHANGED syncVars
    /\ UNCHANGED << imageLoads, contexts >>
    /\ last' = NoOp
    /\ UNCHANGED renderVars
    /\ UNCHANGED << audioSrc, graph, mediaRecorderRef, chunksRef,
                    files, recording, isExporting, showSyncOverlay, ui >>

\* Playback advances by one tick; at the end of the audio the element stops
\* and fires pause and ended.
AudioAdvance ==
    /\ audio.playing
    /\ audio.pos < Duration
    /\ audio' = IF audio.pos + 1 = Duration
                THEN [playing |-> FALSE, pos |-> Duration, ended |-> TRUE]
                ELSE [audio EXCEPT !.pos = audio.pos + 1]
    /\ isPlaying' = AfterMediaEvents(isPlaying, audio, audio')
    /\ frame' = NoFrame
    /\ UNCHANGED syncVars
    /\ UNCHANGED << imageLoads, contexts >>
    /\ last' = NoOp
    /\ UNCHANGED renderVars
    /\ UNCHANGED << audioSrc, graph, recorders, mediaRecorderRef, chunksRef,
                    files, recording, isExporting, showSyncOverlay, ui >>

\* The 16 ms interval installed while isPlaying: setCurrentTime(audio.currentTime)
TimerTick ==
    /\ ui.isPlaying
    /\ currentTime /= audio.pos
    /\ currentTime' = audio.pos
    /\ frame' = NoFrame
    /\ UNCHANGED syncVars
    /\ UNCHANGED << imageLoads, contexts >>
    /\ last' = NoOp
    /\ UNCHANGED << lyrics, settings, particles, canvasWidth, bgImageRef,
                    bgVideoReady, rafScheduled >>
    /\ UNCHANGED exportVars

\* startSyncMode (Controls: manual sync button)
StartSyncMode ==
    /\ IF ~ui.audioSrc
       THEN /\ last' = [op |-> "startSyncMode", outcome |-> "alerted"]
            /\ UNCHANGED << showSyncOverlay, audio, isPlaying, currentSyncIndex, syncHist >>
       ELSE /\ currentSyncIndex' = 0
            /\ syncHist' = [entry |-> lyrics, taps |-> << >>]
            /\ showSyncOverlay' = TRUE
            /\ audio' = AudioPlay(AudioSeek(audio, 0))
            /\ isPlaying' = TRUE
            /\ last' = [op |-> "startSyncMode", outcome |-> "started"]
    /\ UNCHANGED syncView
    /\ frame' = NoFrame
    /\ UNCHANGED << imageLoads, contexts >>
    /\ UNCHANGED renderVars
    /\ UNCHANGED << audioSrc, graph, recorders, mediaRecorderRef, chunksRef,
                    files, recording, isExporting, ui >>

\* Sync overlay, exit button: setShowSyncOverlay(false)
ExitSyncMode ==
    /\ ui.showSyncOverlay
    /\ showSyncOverlay' = FALSE
    /\ frame' = NoFrame
    /\ UNCHANGED syncVars
    /\ UNCHANGED << imageLoads, contexts >>
    /\ last' = [op |-> "exitSyncMode", outcome |-> "none"]
    /\ UNCHANGED renderVars
    /\ UNCHANGED << audioSrc, audio, isPlaying, graph, recorders,
                    mediaRecorderRef, chunksRef, files, recording, isExporting, ui >>

(***************************************************************************)
(* Manual sync: taps and the lyric editor's delete button.                 *)
(***************************************************************************)
\* now + 5: the end given to the last line by the tap that finishes the sync.
SyncTail == 5

\* The first setLyrics updater of markCurrentLine, applied to the state `prev`
\* with the index the callback closed over (0-based idx is line idx + 1).
MarkStart(prev, idx, now) ==
    IF idx < Len(prev)
    THEN [k \in 1..Len(prev) |->
            IF k = idx + 1 THEN [prev[k] EXCEPT !.startTime = now]
            ELSE IF k = idx /\ idx > 0 THEN [prev[k] EXCEPT !.endTime = now]
            ELSE prev[k]]
    ELSE prev

\* The second updater: newLyrics[newLyrics.length - 1].endTime = now + 5.
MarkEnd(prev, now) == [prev EXCEPT ![Len(prev)].endTime = now + SyncTail]

\* markCurrentLine (TAP button of the overlay, Space / Enter while the
\* committed showSyncOverlay is true): the updaters run on the current
\* lyrics, the index and the length are those of the committed render.  On an
\* empty timeline the second updater assigns to newLyrics[-1], a TypeError.
MarkCurrentLine ==
    /\ ui.showSyncOverlay
    /\ Len(syncHist.taps) < MaxTaps
    /\ LET idx == syncView.index
           now == audio.pos
           marked == MarkStart(lyrics, idx, now)
       IN  IF idx < syncView.length - 1
           THEN /\ lyrics' = marked
                /\ currentSyncIndex' = currentSyncIndex + 1
                /\ last' = [op |-> "markCurrentLine", outcome |-> "marked"]
                /\ UNCHANGED showSyncOverlay
           ELSE IF Len(marked) = 0
           THEN /\ last' = [op |-> "markCurrentLine", outcome |-> "threw"]
                /\ UNCHANGED << lyrics, currentSyncIndex, showSyncOverlay >>
           ELSE /\ lyrics' = MarkEnd(marked, now)
                /\ showSyncOverlay' = FALSE
                /\ last' = [op |-> "markCurrentLine", outcome |-> "finished"]
                /\ UNCHANGED currentSyncIndex
    /\ syncHist' = [syncHist EXCEPT !.taps = Append(@, audio.pos)]
    /\ frame' = NoFrame
    /\ UNCHANGED << syncView, imageLoads, contexts >>
    /\ UNCHANGED << settings, currentTime, particles, canvasWidth, bgImageRef,
                    bgVideoReady, rafScheduled >>
    /\ UNCHANGED << audioSrc, audio, isPlaying, graph, recorders, mediaRecorderRef,
                    chunksRef, files, recording, isExporting, ui >>

\* Lyric editor, delete button of a row: setLyrics(lyrics.filter((_, i) => i !== idx)).
\* The editor modal and the sync overlay exclude each other: the overlay
\* covers the button that opens the editor, the modal covers the sync button.
DeleteLine(idx) ==
    /\ ~showSyncOverlay /\ ~ui.showSyncOverlay
    /\ idx \in 1..Len(lyrics)
    /\ lyrics' = RemoveAt(lyrics, idx)
    /\ frame' = NoFrame
    /\ last' = NoOp
    /\ UNCHANGED syncVars
    /\ UNCHANGED << imageLoads, contexts >>
    /\ UNCHANGED << settings, currentTime, particles, canvasWidth, bgImageRef,
                    bgVideoReady, rafScheduled >>
    /\ UNCHANGED exportVars

(***************************************************************************)
(* Capture / export pipeline.                                              *)
(***************************************************************************)
\* if (!canvasRef.current || !audioRef.current) return;
\* the canvas exists while the Visualizer is mounted, the <audio> element always.
StartRefsPresent(canvasMounted, audioElement) == canvasMounted /\ audioElement

\* new MediaRecorder(...); recorder.start()
NewRecorder == [state |-> "recording", pending |-> "none"]

\* startRecording (record button, shown while the committed `recording` is false)
StartRecording ==
    /\ ui.audioSrc /\ ~ui.recording
    /\ Len(recorders) < MaxRecorders
    /\ IF ~StartRefsPresent(ui.audioSrc, TRUE)
       THEN /\ last' = [op |-> "startRecording", outcome |-> "returned"]
            /\ UNCHANGED << recorders, mediaRecorderRef, recording, isExporting,
                            audio, isPlaying >>
       ELSE IF graph = 0
       THEN \* audioContextRef.current!.createMediaStreamDestination() on null: TypeError
            /\ last' = [op |-> "startRecording", outcome |-> "threw"]
            /\ UNCHANGED << recorders, mediaRecorderRef, recording, isExporting,
                            audio, isPlaying >>
       ELSE /\ recorders' = Append(recorders, NewRecorder)
            /\ mediaRecorderRef' = Len(recorders) + 1
            /\ recording' = TRUE
            /\ isExporting' = TRUE
            /\ audio' = AudioPlay(AudioSeek(audio, 0))
            /\ isPlaying' = AfterMediaEvents(isPlaying, audio, audio')
            /\ last' = [op |-> "startRecording", outcome |-> "started"]
    /\ frame' = NoFrame
    /\ UNCHANGED syncVars
    /\ UNCHANGED << imageLoads, contexts >>
    /\ UNCHANGED renderVars
    /\ UNCHANGED << audioSrc, graph, chunksRef, files, showSyncOverlay, ui >>

\* StopGuard without the state test.
StopGuard_RefOnly(ref, recs) == ref /= 0

\* if (mediaRecorderRef.current && mediaRecorderRef.current.state !== 'inactive')
StopGuard(ref, recs) == ref /= 0 /\ recs[ref].state /= "inactive"

\* MediaRecorder.stop(): an inactive recorder ignores it; otherwise the recorder
\* becomes inactive and queues dataavailable, then stop.
RecorderStop(r) ==
    IF r.state = "inactive" THEN r ELSE [state |-> "inactive", pending |-> "data"]

\* stopRecording (stop button, shown while the committed `recording` is true)
StopRecording ==
    /\ ui.audioSrc /\ ui.recording
    /\ IF StopGuard(mediaRecorderRef, recorders)
       THEN /\ recorders' = [recorders EXCEPT ![mediaRecorderRef] = RecorderStop(@)]
            /\ audio' = AudioPause(audio)
            /\ isPlaying' = AfterMediaEvents(isPlaying, audio, audio')
            /\ last' = [op |-> "stopRecording",
                        outcome |-> IF recording THEN "stopped" ELSE "stoppedIdle"]
       ELSE /\ last' = [op |-> "stopRecording",
                        outcome |-> IF recording THEN "ignored" ELSE "ignoredIdle"]
            /\ UNCHANGED << recorders, audio, isPlaying >>
    /\ frame' = NoFrame
    /\ UNCHANGED syncVars
    /\ UNCHANGED << imageLoads, contexts >>
    /\ UNCHANGED renderVars
    /\ UNCHANGED << audioSrc, graph, mediaRecorderRef, chunksRef, files,
                    recording, isExporting, showSyncOverlay, ui >>

\* recorder.ondataavailable: if (e.data.size > 0) chunksRef.current.push(e.data)
DataAvailable(r, nonEmpty) ==
    /\ r \in 1..Len(recorders)
    /\ recorders[r].pending = "data"
    /\ recorders' = [recorders EXCEPT ![r].pending = "stop"]
    /\ chunksRef' = IF nonEmpty THEN Append(chunksRef, r) ELSE chunksRef
    /\ frame' = NoFrame
    /\ UNCHANGED syncVars
    /\ UNCHANGED << imageLoads, contexts >>
    /\ last' = NoOp
    /\ UNCHANGED renderVars
    /\ UNCHANGED << audioSrc, audio, isPlaying, graph, mediaRecorderRef, files,
                    recording, isExporting, showSyncOverlay, ui >>

\* OnStop without setRecording(false) / onExportProgress(false).
OnStop_KeepsRecording(r) ==
    /\ r \in 1..Len(recorders)
    /\ recorders[r].pending = "stop"
    /\ recorders' = [recorders EXCEPT ![r].pending = "none"]
    /\ files' = Append(files, [recorder |-> r, chunks |-> chunksRef])
    /\ chunksRef' = << >>
    /\ frame' = NoFrame
    /\ UNCHANGED syncVars
    /\ UNCHANGED << imageLoads, contexts >>
    /\ last' = [op |-> "onstop", outcome |-> "none"]
    /\ UNCHANGED renderVars
    /\ UNCHANGED << audioSrc, audio, isPlaying, graph, mediaRecorderRef,
                    recording, isExporting, showSyncOverlay, ui >>

\* OnStop without `chunksRef.current = []`.
OnStop_KeepsChunks(r) ==
    /\ r \in 1..Len(recorders)
    /\ recorders[r].pending = "stop"
    /\ recorders' = [recorders EXCEPT ![r].pending = "none"]
    /\ files' = Append(files, [recorder |-> r, chunks |-> chunksRef])
    /\ recording' = FALSE
    /\ isExporting' = FALSE
    /\ frame' = NoFrame
    /\ UNCHANGED syncVars
    /\ UNCHANGED << imageLoads, contexts >>
    /\ last' = [op |-> "onstop", outcome |-> "none"]
    /\ UNCHANGED renderVars
    /\ UNCHANGED << audioSrc, audio, isPlaying, graph, mediaRecorderRef,
                    chunksRef, showSyncOverlay, ui >>

\* recorder.onstop: one Blob of all buffered chunks is downloaded, the buffer
\* is emptied, setRecording(false), onExportProgress(false).
OnStop(r) ==
    /\ r \in 1..Len(recorders)
    /\ recorders[r].pending = "stop"
    /\ recorders' = [recorders EXCEPT ![r].pending = "none"]
    /\ files' = Append(files, [recorder |-> r, chunks |-> chunksRef])
    /\ chunksRef' = << >>
    /\ recording' = FALSE
    /\ isExporting' = FALSE
    /\ frame' = NoFrame
    /\ UNCHANGED syncVars
    /\ UNCHANGED << imageLoads, contexts >>
    /\ last' = [op |-> "onstop", outcome |-> "none"]
    /\ UNCHANGED renderVars
    /\ UNCHANGED << audioSrc, audio, isPlaying, graph, mediaRecorderRef,
                    showSyncOverlay, ui >>

(***************************************************************************)
(* The earlier App: the Visualizer is mounted from the start and replaced  *)
(* by the manual-sync overlay while isSyncMode is set.  Handlers are taken *)
(* with the commit that follows them.                                      *)
(***************************************************************************)
\* useEffect(() => { if (isPlaying) initAudio() }) of a mounted Visualizer
\* whose refs are null: a new AudioContext and analyser are constructed;
\* createMediaElementSource succeeds only on an element that has no source
\* node yet, otherwise it throws and the refs stay null.
LegacyInitAudio(mounted, playing) ==
    IF mounted /\ playing /\ graph = 0
    THEN /\ contexts' = contexts + 1
         /\ graph' = IF contexts = 0 THEN 1 ELSE 0
    ELSE UNCHANGED << contexts, graph >>

\* The view committed with the handler.
LegacyCommit ==
    ui' = [audioSrc |-> audioSrc', recording |-> recording, isExporting |-> isExporting,
           showSyncOverlay |-> showSyncOverlay', isPlaying |-> isPlaying']

\* handleAudioUpload
LegacyUploadAudio ==
    /\ audioSrc' = TRUE
    /\ isPlaying' = FALSE
    /\ audio' = [playing |-> FALSE, pos |-> 0, ended |-> FALSE]
    /\ frame' = NoFrame
    /\ UNCHANGED syncVars
    /\ last' = NoOp
    /\ UNCHANGED << lyrics, settings, currentTime, particles, canvasWidth, bgImageRef,
                    bgVideoReady, rafScheduled, imageLoads, contexts, graph >>
    /\ UNCHANGED << recorders, mediaRecorderRef, chunksRef, files, recording,
                    isExporting, showSyncOverlay >>
    /\ LegacyCommit

\* onPlayPause (play button, or Space in sync mode while paused), then the
\* isPlaying effect of the Visualizer if it is mounted.
LegacyPlayPause ==
    /\ contexts < MaxContexts
    /\ audio' = IF isPlaying THEN AudioPause(audio)
                ELSE IF audioSrc THEN AudioPlay(audio)
                ELSE audio    \* play() without a source is rejected
    /\ isPlaying' = ~isPlaying
    /\ LegacyInitAudio(~showSyncOverlay, ~isPlaying)
    /\ frame' = NoFrame
    /\ UNCHANGED syncVars
    /\ last' = NoOp
    /\ UNCHANGED << lyrics, settings, currentTime, particles, canvasWidth, bgImageRef,
                    bgVideoReady, rafScheduled, imageLoads >>
    /\ UNCHANGED << audioSrc, recorders, mediaRecorderRef, chunksRef, files, recording,
                    isExporting, showSyncOverlay >>
    /\ LegacyCommit

\* handleStartManualSync: without audio an alert and nothing else; otherwise
\* sync mode is entered and the Visualizer unmounts (its refs are dropped,
\* its frame request is cancelled).
LegacyStartManualSync ==
    /\ ~showSyncOverlay
    /\ audioSrc
    /\ showSyncOverlay' = TRUE
    /\ audio' = [AudioPause(audio) EXCEPT !.pos = 0, !.ended = FALSE]
    /\ isPlaying' = FALSE
    /\ graph' = 0
    /\ rafScheduled' = FALSE
    /\ particles' = << >>
    /\ frame' = NoFrame
    /\ UNCHANGED syncVars
    /\ last' = NoOp
    /\ UNCHANGED << lyrics, settings, currentTime, canvasWidth, bgImageRef,
                    bgVideoReady, imageLoads, contexts >>
    /\ UNCHANGED << audioSrc, recorders, mediaRecorderRef, chunksRef, files, recording,
                    isExporting >>
    /\ LegacyCommit

\* handleSaveSync / handleCancelSync: sync mode is left and a new Visualizer
\* mounts with null refs and requests its first frame.
LegacyExitSync ==
    /\ showSyncOverlay
    /\ showSyncOverlay' = FALSE
    /\ audio' = AudioPause(audio)
    /\ isPlaying' = FALSE
    /\ rafScheduled' = TRUE
    /\ frame' = NoFrame
    /\ UNCHANGED syncVars
    /\ last' = NoOp
    /\ UNCHANGED << lyrics, settings, currentTime, particles, canvasWidth, bgImageRef,
                    bgVideoReady, imageLoads, contexts, graph >>
    /\ UNCHANGED << audioSrc, recorders, mediaRecorderRef, chunksRef, files, recording,
                    isExporting >>
    /\ LegacyCommit

NextText ==
    \/ UploadAudio
    \/ Render
    \/ Animate
    \/ \E idx \in 1..2, val \in 0..MaxTime : EditStartTime(idx, val)
    \/ \E idx \in 1..2, val \in 0..MaxTime : EditEndTime(idx, val)
    \/ \E val \in 1..MaxTD : SetTransitionDuration(val)
    \/ \E val \in AnimationTypes : SetAnimationType(val)
    \/ \E t \in 0..(MaxTime + MaxTD) : SetCurrentTime(t)

SpecText == Init /\ [][NextText]_vars

NextExport ==
    \/ UploadAudio
    \/ Render
    \/ TogglePlay
    \/ AudioAdvance
    \/ TimerTick
    \/ StartSyncMode
    \/ ExitSyncMode
    \/ StartRecording
    \/ StopRecording
    \/ \E r \in 1..MaxRecorders, nonEmpty \in BOOLEAN : DataAvailable(r, nonEmpty)
    \/ \E r \in 1..MaxRecorders : OnStop(r)

SpecExport == Init /\ [][NextExport]_vars

\* Container widths a resize can produce.
Widths == {8, 16}

\* The particle field with the frame loop, the window and the count slider.
NextParticles ==
    \/ UploadAudio
    \/ Render
    \/ Animate
    \/ \E val \in 0..MaxParticles : SetParticleCount(val)
    \/ \E w \in Widths : Resize(w)

SpecParticles == Init /\ [][NextParticles]_vars

\* Values of the beat-sensitivity slider (0 .. 2, step 0.1).
Sensitivities == {0, Scale \div 10, Scale, 2 * Scale}

\* Playback with the frame loop: transport buttons, the audio element, the
\* currentTime poll, the analyser, the beat-sensitivity slider and the theme
\* style buttons.
NextPlayback ==
    \/ UploadAudio
    \/ Render
    \/ TogglePlay
    \/ SeekBackward
    \/ SeekForward
    \/ AudioAdvance
    \/ TimerTick
    \/ Animate
    \/ \E val \in Sensitivities : SetBeatSensitivity(val)
    \/ \E val \in ThemeStyles : SetStyle(val)

SpecPlayback == Init /\ [][NextPlayback]_vars

\* The particle field under playback: the analyser gives each frame its own
\* beat factor while the field steps.  One particle is enough to follow its
\* path over consecutive frames.
FieldCounts == {0, 1}

NextField ==
    \/ UploadAudio
    \/ Render
    \/ TogglePlay
    \/ Animate
    \/ \E val \in FieldCounts : SetParticleCount(val)

SpecField == Init /\ [][NextField]_vars

\* The background: image upload, replacement and removal, image loads, the
\* background video and its readiness, and the frame loop.
NextBackground ==
    \/ UploadAudio
    \/ Render
    \/ Animate
    \/ \E val \in Images \cup {0} : SetBackgroundImage(val)
    \/ \E img \in Images : ImageLoaded(img)
    \/ \E val \in Videos \cup {0} : SetBackgroundVideo(val)
    \/ VideoReady

SpecBackground == Init /\ [][NextBackground]_vars

\* The two-line cross-fade scenario: lines 0 s - 4 s and 4 s - 8 s with a
\* transition of 1 s, in ticks.
ScenarioLyrics ==
    << [startTime |-> 0, endTime |-> 8 * DefaultTransition, translation |-> FALSE],
       [startTime |-> 8 * DefaultTransition, endTime |-> 16 * DefaultTransition,
        translation |-> FALSE] >>
ScenarioTD == 2 * DefaultTransition
\* DEFAULT_SETTINGS.transitionDuration, 0.6 s, in ticks.
SourceTransition == 6
ScenarioEnd == ScenarioLyrics[2].endTime + ScenarioTD

\* The scenario loaded from a subtitle file and played through on the clock.
NextScenario ==
    \/ UploadAudio
    \/ Render
    \/ Animate
    \/ SrtUpload(ScenarioLyrics)
    \/ SetTransitionDuration(ScenarioTD)
    \/ SetTransitionDuration(SourceTransition)
    \/ \E val \in AnimationTypes : SetAnimationType(val)
    \/ \E t \in 0..ScenarioEnd : SetCurrentTime(t)

SpecScenario == Init /\ [][NextScenario]_vars

\* Three-line timelines (SAMPLE_LYRICS has three lines) with every choice of
\* start and end times in the modelled range, as the lyric editor can make them.
TimelineLines == [startTime : 0..MaxTime, endTime : 0..MaxTime, translation : {TRUE}]
Timelines == {<< a, b, c >> : a \in TimelineLines, b \in TimelineLines, c \in TimelineLines}

\* The text layer as a function of (timeline, transition duration, time): the
\* Visualizer is mounted with an uploaded audio file, the timeline and the
\* transition duration are any the editor and the slider can set.
InitTimeline ==
    /\ lyrics \in Timelines
    /\ \E td \in 1..MaxTD : settings = [DefaultSettings EXCEPT !.transitionDuration = td]
    /\ currentTime = 0
    /\ particles = << >>
    /\ canvasWidth = 16
    /\ bgImageRef = 0
    /\ bgVideoReady = FALSE
    /\ frame = NoFrame
    /\ rafScheduled = TRUE
    /\ audioSrc = TRUE
    /\ audio = [playing |-> FALSE, pos |-> 0, ended |-> FALSE]
    /\ isPlaying = FALSE
    /\ graph = 0
    /\ recorders = << >>
    /\ mediaRecorderRef = 0
    /\ chunksRef = << >>
    /\ files = << >>
    /\ recording = FALSE
    /\ isExporting = FALSE
    /\ showSyncOverlay = FALSE
    /\ imageLoads = {}
    /\ currentSyncIndex = 0
    /\ syncView = [index |-> 0, length |-> Len(lyrics)]
    /\ syncHist = [entry |-> lyrics, taps |-> << >>]
    /\ contexts = 0
    /\ ui = [audioSrc |-> TRUE, recording |-> FALSE, isExporting |-> FALSE,
             showSyncOverlay |-> FALSE, isPlaying |-> FALSE]
    /\ last = NoOp

NextTimeline ==
    \/ Animate
    \/ \E t \in 0..(MaxTime + MaxTD) : SetCurrentTime(t)

SpecTimeline == InitTimeline /\ [][NextTimeline]_vars

\* A timeline of two consecutive lines, the first with a translation.
DrawLyrics ==
    << [startTime |-> 0, endTime |-> 2, translation |-> TRUE],
       [startTime |-> 2, endTime |-> 4, translation |-> FALSE] >>

\* The default font size and the upper end of the font-size slider.
FontSizes == {DefaultFontSize, 2 * DefaultFontSize}

\* The text layer as a function of its inputs: the Visualizer is mounted on
\* DrawLyrics, either before the first play (no analyser) or playing with the
\* analyser attached.
InitDraw ==
    /\ lyrics = DrawLyrics
    /\ settings = DefaultSettings
    /\ currentTime = 0
    /\ particles = << >>
    /\ canvasWidth = 16
    /\ bgImageRef = 0
    /\ bgVideoReady = FALSE
    /\ frame = NoFrame
    /\ rafScheduled = TRUE
    /\ audioSrc = TRUE
    /\ \E playing \in BOOLEAN :
          /\ audio = [playing |-> playing, pos |-> 0, ended |-> FALSE]
          /\ isPlaying = playing
          /\ graph = (IF playing THEN 1 ELSE 0)
          /\ contexts = (IF playing THEN 1 ELSE 0)
          /\ ui = [audioSrc |-> TRUE, recording |-> FALSE, isExporting |-> FALSE,
                   showSyncOverlay |-> FALSE, isPlaying |-> playing]
    /\ recorders = << >>
    /\ mediaRecorderRef = 0
    /\ chunksRef = << >>
    /\ files = << >>
    /\ recording = FALSE
    /\ isExporting = FALSE
    /\ showSyncOverlay = FALSE
    /\ imageLoads = {}
    /\ currentSyncIndex = 0
    /\ syncView = [index |-> 0, length |-> Len(lyrics)]
    /\ syncHist = [entry |-> lyrics, taps |-> << >>]
    /\ last = NoOp

\* Frames drawn at any time of the clock under every setting drawLine reads.
NextDraw ==
    \/ Animate
    \/ \E t \in 0..(MaxTime + MaxTD) : SetCurrentTime(t)
    \/ \E val \in 1..MaxTD : SetTransitionDuration(val)
    \/ \E val \in AnimationTypes : SetAnimationType(val)
    \/ \E val \in ThemeStyles : SetStyle(val)
    \/ \E val \in FontSizes : SetFontSize(val)
    \/ \E val \in BOOLEAN : SetShowTranslation(val)

SpecDraw == InitDraw /\ [][NextDraw]_vars

\* Manual sync: the timeline is shortened in the editor, sync mode is started
\* and left, the audio plays, and taps arrive.
NextSync ==
    \/ UploadAudio
    \/ Render
    \/ StartSyncMode
    \/ ExitSyncMode
    \/ MarkCurrentLine
    \/ AudioAdvance
    \/ \E idx \in 1..2 : DeleteLine(idx)

SpecSync == Init /\ [][NextSync]_vars

\* The earlier App starts with its Visualizer mounted and the frame loop
\* requested.
InitLegacy ==
    /\ lyrics = SampleLyrics
    /\ settings = DefaultSettings
    /\ currentTime = 0
    /\ particles = << >>
    /\ canvasWidth = 16
    /\ bgImageRef = 0
    /\ bgVideoReady = FALSE
    /\ frame = NoFrame
    /\ rafScheduled = TRUE
    /\ audioSrc = FALSE
    /\ audio = [playing |-> FALSE, pos |-> 0, ended |-> FALSE]
    /\ isPlaying = FALSE
    /\ graph = 0
    /\ recorders = << >>
    /\ mediaRecorderRef = 0
    /\ chunksRef = << >>
    /\ files = << >>
    /\ recording = FALSE
    /\ isExporting = FALSE
    /\ showSyncOverlay = FALSE
    /\ imageLoads = {}
    /\ currentSyncIndex = 0
    /\ syncView = [index |-> 0, length |-> Len(lyrics)]
    /\ syncHist = [entry |-> lyrics, taps |-> << >>]
    /\ contexts = 0
    /\ ui = [audioSrc |-> FALSE, recording |-> FALSE, isExporting |-> FALSE,
             showSyncOverlay |-> FALSE, isPlaying |-> FALSE]
    /\ last = NoOp

\* The earlier App: upload, play / pause, entering and leaving manual sync,
\* and the frame loop of the mounted Visualizer.
NextLegacy ==
    \/ LegacyUploadAudio
    \/ LegacyPlayPause
    \/ LegacyStartManualSync
    \/ LegacyExitSync
    \/ Animate

SpecLegacy == InitLegacy /\ [][NextLegacy]_vars

Next == NextText \/ NextExport \/ NextParticles \/ NextPlayback \/ NextScenario \/ NextField
            \/ NextBackground \/ NextSync

Spec == Init /\ [][Next]_vars

(***************************************************************************)
(* Properties of the text transition windows (checked under SpecText).     *)
(***************************************************************************)
\* The drawLine calls of the frame just drawn that are for line i.
DrawsOf(i) == {k \in 1..Len(frame.lines) : frame.lines[k].idx = i}
LineDrawn(i) == DrawsOf(i) /= {}
DrawOf(i) == frame.lines[CHOOSE k \in DrawsOf(i) : TRUE]
LineIds == 1..Len(lyrics)

\* C1 as stated: in every frame, every line is drawn if and only if
\* startTime <= t < endTime + transitionDuration.
C1_DrawnIffInWindow ==
    frame.drawn =>
        \A i \in LineIds :
            LineDrawn(i) <=>
                ( lyrics[i].startTime <= currentTime
                  /\ currentTime < lyrics[i].endTime + settings.transitionDuration )

\* C1 amended: in every frame, every line with startTime <= endTime is drawn
\* if and only if startTime <= t < endTime + transitionDuration.
C1_DrawnIffInWindowOrdered ==
    frame.drawn =>
        \A i \in LineIds :
            lyrics[i].startTime <= lyrics[i].endTime =>
                ( LineDrawn(i) <=>
                    ( lyrics[i].startTime <= currentTime
                      /\ currentTime < lyrics[i].endTime + settings.transitionDuration ) )

\* A frame that draws one ordered line in its exit window and leaves another
\* ordered line, whose window has passed, undrawn.
C1_Witness ==
    /\ frame.drawn
    /\ \E i, j \in LineIds :
          /\ lyrics[i].startTime < lyrics[i].endTime
          /\ lyrics[j].startTime < lyrics[j].endTime
          /\ LineDrawn(i) /\ currentTime >= lyrics[i].endTime
          /\ ~LineDrawn(j)
          /\ currentTime >= lyrics[j].endTime + settings.transitionDuration

\* The phase a frame used for line i ("none" when drawLine was not called).
PhaseUsed(i) == IF LineDrawn(i) THEN DrawOf(i).phase ELSE "none"

\* C2 as stated: Entering exactly on [start, start+td), Active exactly on
\* [start+td, end), Exiting exactly on [end, end+td), Hidden otherwise.
\* Stated here for the lines the data model allows (startTime < endTime),
\* for which it already fails.
C2_PhaseWindows ==
    frame.drawn =>
        \A i \in LineIds :
            LET st == lyrics[i].startTime
                en == lyrics[i].endTime
                td == settings.transitionDuration
                t == currentTime
            IN  st < en =>
                /\ PhaseUsed(i) = "enter" <=> (st <= t /\ t < st + td)
                /\ PhaseUsed(i) = "active" <=> (st + td <= t /\ t < en)
                /\ PhaseUsed(i) = "exit" <=> (en <= t /\ t < en + td)

\* C2 amended: Entering exactly on [start, min(start+td, end)), Active exactly
\* on [start+td, end), Exiting exactly on [end, end+td), Hidden otherwise.
C2_PhaseWindowsClipped ==
    frame.drawn =>
        \A i \in LineIds :
            LET st == lyrics[i].startTime
                en == lyrics[i].endTime
                td == settings.transitionDuration
                t == currentTime
            IN  /\ PhaseUsed(i) = "enter" <=> (st <= t /\ t < st + td /\ t < en)
                /\ PhaseUsed(i) = "active" <=> (st + td <= t /\ t < en)
                /\ PhaseUsed(i) = "exit" <=> (en <= t /\ t < en + td)
                /\ PhaseUsed(i) = "none" <=>
                       ~( (st <= t /\ t < st + td /\ t < en)
                          \/ (st + td <= t /\ t < en)
                          \/ (en <= t /\ t < en + td) )

\* A frame drawn for a line shorter than the transition, at a time inside
\* both its enter and its exit interval.
C2_Witness ==
    /\ frame.drawn
    /\ \E i \in LineIds :
          /\ lyrics[i].startTime < lyrics[i].endTime
          /\ lyrics[i].endTime <= currentTime
          /\ currentTime < lyrics[i].startTime + settings.transitionDuration
          /\ PhaseUsed(i) = "exit"
    /\ \E j \in LineIds : PhaseUsed(j) = "active"

SteadyDraw(d) ==
    /\ d.alpha = Scale /\ d.globalAlpha = Scale /\ d.scale = Scale
    /\ d.yOffset = 0 /\ d.blurAmount = 0 /\ d.filterBlur = 0

\* C3 as stated: for every line, the frame at t = start draws it entering with
\* progress 0, and the frame at t = start + td draws it with progress 1 and
\* the steady-state parameters.  Stated here for the lines the data model
\* allows (startTime < endTime), for which it already fails.
C3_EnterEndpoints ==
    frame.drawn =>
        \A i \in LineIds :
            lyrics[i].startTime < lyrics[i].endTime =>
            /\ currentTime = lyrics[i].startTime =>
                   ( PhaseUsed(i) = "enter" /\ DrawOf(i).num = 0 )
            /\ currentTime = lyrics[i].startTime + settings.transitionDuration =>
                   ( LineDrawn(i) /\ DrawOf(i).num = DrawOf(i).den
                     /\ SteadyDraw(DrawOf(i)) )

\* C3 amended: for every line with start < end the frame at t = start draws it
\* entering with progress 0; for every line with start + td < end the frame at
\* t = start + td draws it with progress 1 and the steady-state parameters.
C3_EnterEndpointsLongLine ==
    frame.drawn =>
        \A i \in LineIds :
            /\ ( lyrics[i].startTime < lyrics[i].endTime
                 /\ currentTime = lyrics[i].startTime ) =>
                   ( PhaseUsed(i) = "enter" /\ DrawOf(i).num = 0 )
            /\ ( lyrics[i].startTime + settings.transitionDuration < lyrics[i].endTime
                 /\ currentTime = lyrics[i].startTime + settings.transitionDuration ) =>
                   ( LineDrawn(i) /\ DrawOf(i).num = DrawOf(i).den
                     /\ SteadyDraw(DrawOf(i)) )

\* Frames at both endpoints of an enter window: one line at its start, another
\* at its start + td, the latter longer than the transition.
C3_Witness ==
    /\ frame.drawn
    /\ \E i, j \in LineIds :
          /\ lyrics[i].startTime < lyrics[i].endTime
          /\ currentTime = lyrics[i].startTime
          /\ PhaseUsed(i) = "enter"
          /\ lyrics[j].startTime + settings.transitionDuration < lyrics[j].endTime
          /\ currentTime = lyrics[j].startTime + settings.transitionDuration
          /\ PhaseUsed(j) = "active"

\* C4: for every line, an exit draw has progress (t - end)/td with
\* 0 <= progress < 1; the frame at t = end draws the line exiting with progress
\* 0 and full opacity; the frame at t = end + td does not draw the line.
C4_ExitProgress ==
    frame.drawn =>
        \A i \in LineIds :
            /\ PhaseUsed(i) = "exit" =>
                   /\ DrawOf(i).num = currentTime - lyrics[i].endTime
                   /\ DrawOf(i).den = settings.transitionDuration
                   /\ 0 <= DrawOf(i).num /\ DrawOf(i).num < DrawOf(i).den
            /\ currentTime = lyrics[i].endTime =>
                   /\ PhaseUsed(i) = "exit" /\ DrawOf(i).num = 0
                   /\ DrawOf(i).globalAlpha = Scale
            /\ currentTime = lyrics[i].endTime + settings.transitionDuration =>
                   ~LineDrawn(i)

\* One frame with a line at t = end and another line at t = end + td, and a
\* frame strictly inside an exit window.
C4_Witness ==
    /\ frame.drawn
    /\ \E i, j \in LineIds :
          /\ currentTime = lyrics[i].endTime /\ PhaseUsed(i) = "exit"
          /\ currentTime = lyrics[j].endTime + settings.transitionDuration
          /\ ~LineDrawn(j)
          /\ lyrics[j].startTime < lyrics[j].endTime

(***************************************************************************)
(* Properties of the capture / export pipeline (checked under SpecExport). *)
(***************************************************************************)
Recording(r) == recorders[r].state = "recording"
ActiveRecorders == {r \in 1..Len(recorders) : Recording(r)}
FilesOf(r) == {k \in 1..Len(files) : files[k].recorder = r}
StartStep == last'.op = "startRecording"
StopStep == last'.op = "stopRecording"
OnStopStep == last'.op = "onstop"

\* C5: a start() issued while no audio graph exists returns quietly: no fault
\* is raised, the user is shown a message, the pipeline stays Idle and no file
\* is produced.
C5_StartWithoutAudioIsQuiet ==
    ( last.op = "startRecording" /\ graph = 0 ) =>
        /\ last.outcome = "alerted"
        /\ ~recording /\ recorders = << >> /\ files = << >>

\* C6 as stated: once playback has reached the end of the audio, the current
\* recorder has been stopped.
C6_EndStopsRecording ==
    ( audio.ended /\ mediaRecorderRef /= 0 ) =>
        recorders[mediaRecorderRef].state = "inactive"

\* C6 amended: the step in which playback reaches the end of the audio while
\* Recording only clears the playing flag - the recorder keeps recording, no
\* file is produced, the pipeline stays Recording - and a recorder leaves the
\* recording state only in a stopRecording step.
C6_EndLeavesRecordingToUser ==
    [][ /\ ( audio'.ended /\ ~audio.ended /\ recording ) =>
               /\ recording' /\ isExporting'
               /\ recorders' = recorders /\ files' = files
               /\ mediaRecorderRef' = mediaRecorderRef
               /\ ~isPlaying'
        /\ \A r \in 1..Len(recorders) :
               ( Recording(r) /\ recorders'[r].state = "inactive" ) => StopStep
      ]_vars

\* Playback has ended, the pipeline is Recording and its recorder still records.
C6_Witness ==
    /\ audio.ended /\ recording
    /\ mediaRecorderRef /= 0 /\ Recording(mediaRecorderRef)
    /\ files = << >>

\* C7: there is never more than one recorder capturing: a start() while a
\* recording is running creates no second recorder.
C7_SingleActiveRecorder == Cardinality(ActiveRecorders) <= 1

\* C8: a stop() accepted while Recording makes the recorder inactive, queues
\* its finalization and pauses playback; the finalization downloads one file
\* holding the chunks buffered so far, empties the buffer and returns the
\* pipeline to Idle; a stop() on a recorder already stopped changes nothing;
\* no recorder ever has more than one file, and a finalized one has exactly one.
C8_StopFinalizesOnce ==
    [][ /\ ( StopStep /\ last'.outcome \in {"stopped", "stoppedIdle"} ) =>
               /\ Recording(mediaRecorderRef)
               /\ recorders'[mediaRecorderRef] = [state |-> "inactive", pending |-> "data"]
               /\ ~audio'.playing /\ ~isPlaying'
               /\ files' = files
        /\ ( StopStep /\ last'.outcome \in {"ignored", "ignoredIdle"} ) =>
               /\ recorders' = recorders /\ files' = files /\ audio' = audio
               /\ chunksRef' = chunksRef /\ recording' = recording
        /\ OnStopStep =>
               /\ Len(files') = Len(files) + 1
               /\ files'[Len(files')].chunks = chunksRef
               /\ chunksRef' = << >>
               /\ ~recording' /\ ~isExporting'
        /\ Len(files') /= Len(files) => OnStopStep
        /\ \A r \in 1..Len(recorders') :
               /\ Cardinality({k \in 1..Len(files') : files'[k].recorder = r}) <= 1
               /\ ( recorders'[r].state = "inactive" /\ recorders'[r].pending = "none" ) =>
                      Cardinality({k \in 1..Len(files') : files'[k].recorder = r}) = 1
      ]_vars

\* A recording was stopped (recorder inactive, playback paused, finalization
\* queued) and stop() was just pressed again before the finalization.
C8_Witness ==
    /\ last = [op |-> "stopRecording", outcome |-> "ignored"]
    /\ recording /\ mediaRecorderRef /= 0
    /\ recorders[mediaRecorderRef].state = "inactive"
    /\ recorders[mediaRecorderRef].pending \in {"data", "stop"}
    /\ ~audio.playing
    /\ files = << >>

\* C9: a stop() while the pipeline is Idle changes nothing: no file, no change
\* of the pipeline state or of any recorder, playback not paused.
C9_StopWhileIdleIsNoop ==
    [][ ( StopStep /\ ~recording ) =>
            /\ last'.outcome = "ignoredIdle"
            /\ UNCHANGED << audioSrc, audio, isPlaying, graph, recorders,
                            mediaRecorderRef, chunksRef, files, recording,
                            isExporting, showSyncOverlay, ui, currentTime >>
      ]_vars

\* stop() was just pressed on an Idle pipeline while audio was playing.
C9_Witness ==
    /\ last = [op |-> "stopRecording", outcome |-> "ignoredIdle"]
    /\ ~recording /\ audio.playing
    /\ mediaRecorderRef /= 0

\* C10: a start() from Idle with the audio graph built moves the pipeline to
\* Recording with a new recorder, puts the playback position at zero and starts
\* playback; the pipeline state changes only Idle -> Recording (by start) and
\* Recording -> Idle (by the finalization of a stop).
C10_StartFromIdle ==
    [][ /\ ( StartStep /\ ~recording /\ graph /= 0 ) =>
               /\ last'.outcome = "started"
               /\ recording' /\ isExporting'
               /\ Len(recorders') = Len(recorders) + 1
               /\ mediaRecorderRef' = Len(recorders')
               /\ recorders'[mediaRecorderRef'].state = "recording"
               /\ audio'.pos = 0 /\ audio'.playing /\ isPlaying'
        /\ ( ~recording /\ recording' ) => ( StartStep /\ last'.outcome = "started" )
        /\ ( recording /\ ~recording' ) => OnStopStep
      ]_vars

\* A recording was just started from Idle although playback had advanced.
C10_Witness ==
    /\ last = [op |-> "startRecording", outcome |-> "started"]
    /\ Len(recorders) = 1
    /\ recording /\ audio.playing /\ audio.pos = 0
    /\ currentTime > 0

(***************************************************************************)
(* Properties of the particle field (checked under SpecParticles).         *)
(***************************************************************************)
\* C11 as stated: in every state the number of live particles is at most the
\* current settings.particleCount.
C11_FieldWithinCount ==
    Len(particles) <= settings.particleCount

\* C12: after every frame's particle step (and in every other state), no
\* particle left in the field has life >= maxLife, however many particles
\* were due to expire in that frame.
C12_NoExpiredParticleRemains ==
    \A k \in 1..Len(particles) : particles[k].life * Scale < particles[k].maxLife

\* A frame in which two particles were due to expire: the first was drawn at
\* the end of its life and spliced out, the second was passed over by the
\* loop and is still in the field, one step short of its max-age.
C12_Witness ==
    /\ frame.drawn
    /\ frame.particleAlphas = << 0 >>
    /\ Len(particles) = 1
    /\ (particles[1].life + 1) * Scale >= particles[1].maxLife

\* C13: in the state that follows a canvas resize the particle field is empty.
C13_ResizeEmptiesField ==
    last.op = "resize" => particles = << >>

\* A resize that found particles in the field has just run.
C13_Witness ==
    /\ last = [op |-> "resize", outcome |-> "wasPopulated"]
    /\ particles = << >>
    /\ settings.particleCount > 0

\* C14 as stated: a frame drawn while settings.particleCount is 0 draws no
\* particle.
C14_NoParticleDrawnAtZero ==
    ( frame.drawn /\ settings.particleCount = 0 ) => frame.particleAlphas = << >>

\* The positions of the frame's canvas calls that belong to a layer.
OpsOf(tag) == {k \in 1..Len(frame.order) : frame.order[k] = tag}

\* C20: a frame drawn while no analyser is attached has beatFactor exactly
\* 1.0, draws no frequency bar, and is complete: the surface is cleared, the
\* background is drawn, every particle visited and every visible line is
\* drawn, and the text layer is the one computed for beatFactor 1.0.
C20_FrameWithoutAnalyser ==
    ( frame.drawn /\ graph = 0 ) =>
        /\ frame.beatFactor = Scale
        /\ frame.bars = << >>
        /\ OpsOf("clear") /= {} /\ OpsOf("background") /= {} /\ OpsOf("bars") = {}
        /\ Cardinality(OpsOf("particles")) >= Len(frame.particleAlphas)
        /\ Cardinality(OpsOf("text")) = Len(frame.lines)
        /\ frame.background = BackgroundLayer(settings, bgVideoReady, bgImageRef)
        /\ frame.lines = TextLayer(lyrics, frame.time, settings, Scale)

\* A frame without analyser in which particles and a lyric line were drawn.
C20_Witness ==
    /\ frame.drawn
    /\ graph = 0
    /\ frame.particleAlphas /= << >>
    /\ frame.lines /= << >>
    /\ frame.bars = << >>

(***************************************************************************)
(* Properties of playback and the frame loop (checked under SpecPlayback). *)
(***************************************************************************)
\* C15 as stated: a frame drawn right after a seek made while playback is
\* paused (flag false, poll interval cleared) is computed for the audio
\* element's new position.
C15_SeekWhilePausedIsRendered ==
    [][ ( /\ last = [op |-> "seek", outcome |-> "paused"]
          /\ ~ui.isPlaying
          /\ frame'.drawn )
        => frame'.time = audio.pos ]_vars

\* C16 as stated: after every invocation of the frame callback the next frame
\* is scheduled.
C16_FrameSchedulesNext ==
    last.op = "animate" => rafScheduled

\* C19: for the snapshot of a frame drawn with an analyser, beatFactor is the
\* value of 1 + (mean / 255) * sensitivity, it is at least 1.0, it is exactly
\* 1.0 at sensitivity 0, and it does not decrease when the sensitivity grows.
C19_BeatFactorMonotone ==
    ( frame.drawn /\ graph /= 0 ) =>
        LET bf(v) == BeatFactor(TRUE, [low |-> frame.lowMean, high |-> 0],
                                [settings EXCEPT !.beatSensitivity = v])
        IN  /\ frame.beatFactor = bf(settings.beatSensitivity)
            /\ frame.beatFactor >= Scale
            /\ bf(0) = Scale
            /\ \A v1, v2 \in Sensitivities : v1 <= v2 => bf(v1) <= bf(v2)

\* A frame drawn with an analyser, a loud low band and the slider at its
\* maximum: the beat factor is above 1.0.
C19_Witness ==
    /\ frame.drawn
    /\ graph /= 0
    /\ frame.lowMean = ByteMax
    /\ settings.beatSensitivity = 2 * Scale
    /\ frame.beatFactor = 3 * Scale

(***************************************************************************)
(* Properties of overlapping lines (checked under SpecScenario and         *)
(* SpecTimeline).                                                          *)
(***************************************************************************)
\* C17: with the lines 0-4 s and 4-8 s and a transition of 1 s, the frame at
\* t = 4.0 s draws exactly both lines: line 1 exiting with progress 0 and
\* line 2 entering with progress 0.
C17_CrossFadeAtBoundary ==
    ( /\ frame.drawn
      /\ lyrics = ScenarioLyrics
      /\ settings.transitionDuration = ScenarioTD
      /\ frame.time = ScenarioLyrics[1].endTime )
    => /\ Len(frame.lines) = 2
       /\ LineDrawn(1) /\ DrawOf(1).phase = "exit" /\ DrawOf(1).num = 0
       /\ LineDrawn(2) /\ DrawOf(2).phase = "enter" /\ DrawOf(2).num = 0

\* The frame at t = 4.0 s of the scenario has been drawn with both lines.
C17_Witness ==
    /\ frame.drawn
    /\ lyrics = ScenarioLyrics
    /\ settings.transitionDuration = ScenarioTD
    /\ frame.time = ScenarioLyrics[1].endTime
    /\ Len(frame.lines) = 2

\* The timeline is sorted by startTime and its [startTime, endTime) intervals
\* are pairwise disjoint.
SortedTimeline ==
    \A i, j \in LineIds : i < j => lyrics[i].startTime <= lyrics[j].startTime
DisjointTimeline ==
    \A i, j \in LineIds :
        i /= j => Max(lyrics[i].startTime, lyrics[j].startTime)
                      >= Min(lyrics[i].endTime, lyrics[j].endTime)
\* The end times of any two lines are at least a transition duration apart.
EndsSpaced ==
    \A i, j \in LineIds :
        ( i /= j /\ lyrics[i].endTime <= lyrics[j].endTime )
            => lyrics[j].endTime - lyrics[i].endTime >= settings.transitionDuration
CurrentLines == {i \in LineIds : PhaseUsed(i) \in {"enter", "active"}}
ExitingLines == {i \in LineIds : PhaseUsed(i) = "exit"}

\* C18 as stated: in a frame of a sorted timeline with disjoint intervals at
\* most one line is entering or active, at most one line is exiting, and at
\* most two lines are drawn.  Stated here for timelines whose lines all have
\* startTime < endTime, for which it already fails.
C18_AtMostTwoDrawn ==
    ( /\ frame.drawn /\ SortedTimeline /\ DisjointTimeline
      /\ \A i \in LineIds : lyrics[i].startTime < lyrics[i].endTime ) =>
        /\ Cardinality(CurrentLines) <= 1
        /\ Cardinality(ExitingLines) <= 1
        /\ Len(frame.lines) <= 2

\* C18 amended: in a frame of a sorted timeline with disjoint intervals at
\* most one line is entering or active; if moreover the end times of any two
\* lines are at least transitionDuration apart, at most one line is exiting
\* and at most two lines are drawn.
C18_AtMostTwoDrawnSpacedEnds ==
    ( frame.drawn /\ SortedTimeline /\ DisjointTimeline ) =>
        /\ Cardinality(CurrentLines) <= 1
        /\ EndsSpaced => ( /\ Cardinality(ExitingLines) <= 1
                           /\ Len(frame.lines) <= 2 )

\* A frame of a sorted, disjoint timeline of three lines of positive length
\* with spaced end times, at a boundary: one line exiting, the next current.
C18_Witness ==
    /\ frame.drawn /\ SortedTimeline /\ DisjointTimeline /\ EndsSpaced
    /\ \A i \in LineIds : lyrics[i].startTime < lyrics[i].endTime
    /\ Cardinality(CurrentLines) = 1
    /\ Cardinality(ExitingLines) = 1
    /\ Len(frame.lines) = 2

(***************************************************************************)
(* Particle step: every particle stepped, reflection, draw alpha.          *)
(***************************************************************************)
\* The particle of the field before the frame, stepped once by the frame.
SteppedOnce(i) ==
    ParticleUpdate(particles[i], canvasWidth, CanvasHeight(canvasWidth), frame'.beatFactor)

\* C22: in every frame, every particle that is in the field when the step
\* begins is advanced by its velocity times the beat factor and aged by
\* exactly one, also in frames where other particles expire and are removed:
\* the frame updates (and so draws) at least as many particles as the field
\* held, and each of them that has not reached its max-age is in the field
\* afterwards, advanced and aged.
C22_EveryParticleStepped ==
    [][frame'.drawn =>
         /\ Len(frame'.particleAlphas) >= Len(particles)
         /\ \A i \in 1..Len(particles) :
                SteppedOnce(i).life * Scale < SteppedOnce(i).maxLife
                    => \E k \in 1..Len(particles') : particles'[k] = SteppedOnce(i)]_vars

\* C23: boundary reflection is elastic: whenever a particle of the field lies
\* outside [0, width] (resp. [0, height]) after a step, the corresponding
\* velocity component points back toward the canvas, whatever beat factors the
\* frames had.
C23_VelocityPointsInward ==
    \A k \in 1..Len(particles) :
        /\ particles[k].x < 0 => particles[k].vx > 0
        /\ particles[k].x > canvasWidth * Scale => particles[k].vx < 0
        /\ particles[k].y < 0 => particles[k].vy > 0
        /\ particles[k].y > CanvasHeight(canvasWidth) * Scale => particles[k].vy < 0

\* C24: every particle that is drawn is drawn with alpha = 1 - age/maxAge and
\* that value lies in [0, 1].
C24_DrawAlphaInUnitRange ==
    frame.drawn =>
        \A k \in 1..Len(frame.particleAlphas) : frame.particleAlphas[k] \in 0..Scale

(***************************************************************************)
(* Fade scenario at the shipped transition duration (SpecScenario).        *)
(***************************************************************************)
\* The frame just drawn shows the line 4 s - 8 s of the scenario with the
\* Fade animation and a transition of 0.6 s.
FadeScenarioFrame ==
    /\ frame.drawn
    /\ lyrics = ScenarioLyrics
    /\ settings.animationType = "FADE"
    /\ TransitionDuration(settings) = SourceTransition

\* The drawLine calls of the frame for the second scenario line.
FadeDraws == {k \in 1..Len(frame.lines) : frame.lines[k].idx = 2}

\* C21: with Fade, transitionDuration 0.6 and a line {4.0, 8.0}: at t = 4.3
\* the line is entering with linear progress 0.5 and opacity 0.875 (within
\* 0.01); at t = 8.3 it is exiting with linear progress 0.5 and opacity 0.5.
C21_FadeHalfway ==
    FadeScenarioFrame =>
        /\ frame.time = ScenarioLyrics[2].startTime + SourceTransition \div 2 =>
              /\ FadeDraws /= {}
              /\ \A k \in FadeDraws :
                    /\ frame.lines[k].phase = "enter"
                    /\ 2 * frame.lines[k].num = frame.lines[k].den
                    /\ frame.lines[k].globalAlpha \in (875 - 10)..(875 + 10)
        /\ frame.time = ScenarioLyrics[2].endTime + SourceTransition \div 2 =>
              /\ FadeDraws /= {}
              /\ \A k \in FadeDraws :
                    /\ frame.lines[k].phase = "exit"
                    /\ 2 * frame.lines[k].num = frame.lines[k].den
                    /\ frame.lines[k].globalAlpha = Scale \div 2

\* The frame at t = 4.3 s of the Fade scenario, the line drawn half-way in.
C21_Witness ==
    /\ FadeScenarioFrame
    /\ frame.time = ScenarioLyrics[2].startTime + SourceTransition \div 2
    /\ \E k \in FadeDraws : frame.lines[k].phase = "enter" /\ frame.lines[k].globalAlpha = 875

(***************************************************************************)
(* Frequency bars (SpecPlayback).                                          *)
(***************************************************************************)
\* C25: for every bin magnitude in [0, 255] and every beat factor the
\* settings allow, the height of each frequency bar is at most one third of
\* the frame height.
C25_BarsWithinThird ==
    frame.drawn =>
        \A k \in 1..Len(frame.bars) :
            frame.bars[k] <= (CanvasHeight(canvasWidth) * Scale) \div 3

(***************************************************************************)
(* Background layer (SpecBackground).                                      *)
(***************************************************************************)
\* The configured video is ready; the configured image has been decoded (the
\* load started for it has completed).
VideoDecoded == settings.backgroundVideo /= 0 /\ bgVideoReady
ImageDecoded == settings.backgroundImage /= 0 /\ settings.backgroundImage \notin imageLoads

\* C26: in every frame in which the configured background image or video has
\* not finished decoding, or none is configured, the background is the flat
\* fill, whatever the interleaving of set / replace / remove with image
\* loads; an image that is no longer the configured one is never drawn.
C26_UndecodedMeansFlat ==
    frame.drawn =>
        /\ (~VideoDecoded /\ ~ImageDecoded) => frame.background.kind = "color"
        /\ frame.background.kind = "image" =>
              frame.background.source = settings.backgroundImage

\* C27: the background of each frame is the video if one is configured and
\* ready, otherwise the image if one is loaded, otherwise the flat fill; the
\* dark overlay is drawn exactly when a video or an image was drawn.
C27_BackgroundPriority ==
    frame.drawn =>
        /\ frame.background.kind =
              (IF settings.backgroundVideo /= 0 /\ bgVideoReady THEN "video"
               ELSE IF bgImageRef /= 0 THEN "image" ELSE "color")
        /\ frame.background.kind = "video" => frame.background.source = settings.backgroundVideo
        /\ frame.background.kind = "image" => frame.background.source = bgImageRef
        /\ frame.background.overlay <=> frame.background.kind \in {"video", "image"}

\* A frame drawn while a video is ready and an image is loaded: the video wins.
C27_Witness ==
    /\ frame.drawn
    /\ settings.backgroundVideo /= 0 /\ bgVideoReady
    /\ bgImageRef /= 0
    /\ frame.background.kind = "video"
    /\ frame.background.overlay

(***************************************************************************)
(* Order of the drawing steps within a frame (SpecField).                  *)
(***************************************************************************)
LayerRank(tag) ==
    CASE tag = "clear" -> 1
      [] tag = "background" -> 2
      [] tag = "particles" -> 3
      [] tag = "bars" -> 4
      [] tag = "text" -> 5

\* C28: within every frame the drawing steps occur in the order clear,
\* background, particles, frequency bars, lyric text: the frame starts with
\* the clear, the background follows, and no step of a later layer precedes a
\* step of an earlier layer.
C28_LayersInOrder ==
    frame.drawn =>
        /\ Len(frame.order) >= 2
        /\ frame.order[1] = "clear"
        /\ frame.order[2] = "background"
        /\ \A i, j \in 1..Len(frame.order) :
              i < j => LayerRank(frame.order[i]) <= LayerRank(frame.order[j])

\* A frame in which every layer issued at least one call.
C28_Witness ==
    /\ frame.drawn
    /\ frame.particleAlphas /= << >>
    /\ frame.bars /= << >>
    /\ frame.lines /= << >>
    /\ \A tag \in {"clear", "background", "particles", "bars", "text"} :
          \E k \in 1..Len(frame.order) : frame.order[k] = tag

(***************************************************************************)
(* Text glow by theme style (SpecPlayback).                                *)
(***************************************************************************)
\* C30: Neon and Fiery text gets a coloured shadow whose blur grows with the
\* beat factor; Minimal text gets no shadow blur for any beat factor; the
\* text of every other style (Nature) gets a shadow whose blur does not
\* depend on the beat factor (it is the blur of a frame without beat).
C30_GlowByStyle ==
    frame.drawn =>
        \A k \in 1..Len(frame.lines) :
            /\ settings.style \in {"NEON", "FIERY"} =>
                  /\ frame.lines[k].shadowColor \in {"primaryColor", "#ea580c"}
                  /\ frame.beatFactor > Scale =>
                        frame.lines[k].shadowBlur > ShadowBlur(settings, Scale)
            /\ settings.style = "MINIMAL" => frame.lines[k].shadowBlur = 0
            /\ settings.style = "NATURE" =>
                  frame.lines[k].shadowBlur = ShadowBlur(settings, Scale)

(***************************************************************************)
(* Audio graph construction (SpecLegacy).                                  *)
(***************************************************************************)
\* C29: the audio-processing graph is constructed at most once, on the first
\* transition to playing; no later play / pause event constructs a second
\* graph for the same audio element.
C29_GraphConstructedOnce == contexts <= 1

(***************************************************************************)
(* Text parameters as a function of their inputs (SpecDraw).               *)
(***************************************************************************)
\* C31: a line drawn in the active phase has the steady parameters for every
\* animation type and every beat factor: opacity 1, scale 1, vertical offset
\* 0 and no blur.
C31_ActiveIsSteady ==
    frame.drawn =>
        \A k \in 1..Len(frame.lines) :
            frame.lines[k].phase = "active" =>
                /\ frame.lines[k].alpha = Scale
                /\ frame.lines[k].globalAlpha = Scale
                /\ frame.lines[k].scale = Scale
                /\ frame.lines[k].yOffset = 0
                /\ frame.lines[k].blurAmount = 0
                /\ frame.lines[k].filterBlur = 0

\* An active line drawn on a beat with an animation type other than the default.
C31_Witness ==
    /\ frame.drawn
    /\ frame.beatFactor > Scale
    /\ settings.animationType = "BOUNCE"
    /\ \E k \in 1..Len(frame.lines) : frame.lines[k].phase = "active"

\* C32: the translation of a line is drawn exactly when the line is drawn,
\* showTranslation is enabled and the line has a translation; it is drawn with
\* the opacity of the main text, without blur and without glow, in every phase.
C32_TranslationPlain ==
    frame.drawn =>
        \A k \in 1..Len(frame.lines) :
            LET d == frame.lines[k] IN
            /\ d.translation <=> (settings.showTranslation /\ lyrics[d.idx].translation)
            /\ d.translation =>
                  /\ d.translationState.globalAlpha = d.globalAlpha
                  /\ d.translationState.filterBlur = 0
                  /\ d.translationState.shadowBlur = 0

\* A translation drawn under an exiting main text that is blurred and glowing,
\* in a frame that also draws a line without translation.
C32_Witness ==
    /\ frame.drawn
    /\ \E k \in 1..Len(frame.lines) :
          /\ frame.lines[k].translation
          /\ frame.lines[k].phase = "exit"
          /\ frame.lines[k].filterBlur > 0
          /\ frame.lines[k].shadowBlur > 0
          /\ frame.lines[k].globalAlpha < Scale
    /\ \E k \in 1..Len(frame.lines) : ~frame.lines[k].translation

\* The transition parameters of a drawLine call.
TransitionParams(d) ==
    [ idx |-> d.idx, phase |-> d.phase, num |-> d.num, den |-> d.den,
      alpha |-> d.alpha, globalAlpha |-> d.globalAlpha, scale |-> d.scale,
      yOffset |-> d.yOffset, blurAmount |-> d.blurAmount, filterBlur |-> d.filterBlur ]

\* The transition parameters of the lines drawn by a run that is at the given
\* inputs and otherwise in its reference state: default settings, no beat.
ReferenceParams(ls, t, s) ==
    LET ref == TextLayer(ls, t, s, Scale)
    IN  [k \in 1..Len(ref) |-> TransitionParams(ref[k])]

\* The transition parameters of the frame just drawn.
FrameParams == [k \in 1..Len(frame.lines) |-> TransitionParams(frame.lines[k])]

\* C33 as stated: the transition parameters of the lines in a frame are a
\* function of (currentTime, line, transitionDuration, animationType) only:
\* they are those of any other run with the same four inputs.
C33_ParamsOfFourInputs ==
    frame.drawn =>
        FrameParams =
            ReferenceParams(lyrics, frame.time,
                            [DefaultSettings EXCEPT
                                !.transitionDuration = settings.transitionDuration,
                                !.animationType = settings.animationType])

\* C33, amended: the transition parameters are a function of (currentTime,
\* line, transitionDuration, animationType, fontSize) only.
C33_ParamsOfFiveInputs ==
    frame.drawn =>
        FrameParams =
            ReferenceParams(lyrics, frame.time,
                            [DefaultSettings EXCEPT
                                !.transitionDuration = settings.transitionDuration,
                                !.animationType = settings.animationType,
                                !.fontSize = settings.fontSize])

\* A frame that differs from the reference run in beat, style, font size and
\* translation setting and draws an entering line with an offset.
C33_Witness ==
    /\ frame.drawn
    /\ frame.beatFactor > Scale
    /\ settings.style /= DefaultSettings.style
    /\ settings.fontSize /= DefaultSettings.fontSize
    /\ settings.showTranslation /= DefaultSettings.showTranslation
    /\ \E k \in 1..Len(frame.lines) :
          frame.lines[k].phase = "enter" /\ frame.lines[k].yOffset /= 0

(***************************************************************************)
(* Manual sync (SpecSync).                                                 *)
(***************************************************************************)
\* C34: each tap assigns the tap time to the line at the current sync index
\* and advances the index by one, so after k taps the lines 0..k-1 carry the
\* k tap times in order and line i-1 ends where line i starts, also when two
\* taps arrive before the interface has re-rendered between them.
C34_TapsMarkLinesInOrder ==
    last.op = "markCurrentLine" =>
        LET k == Len(syncHist.taps)
            n == Min(k, Len(lyrics))
        IN  /\ \A i \in 1..n :
                  /\ lyrics[i].startTime = syncHist.taps[i]
                  /\ i < n => lyrics[i].endTime = syncHist.taps[i + 1]
            /\ last.outcome = "marked" => currentSyncIndex = k

\* C35: a tap never reads or writes a lyric entry outside the timeline's
\* index range, for every timeline length including the empty timeline.
C35_TapStaysInRange ==
    last.op = "markCurrentLine" => last.outcome /= "threw"

\* C37: leaving sync mode with the exit button leaves the timeline as it was
\* when sync mode was entered, whatever number of taps were made in between.
C37_ExitRestoresTimeline ==
    last.op = "exitSyncMode" => lyrics = syncHist.entry

(***************************************************************************)
(* The recording and the audio element (SpecExport, SpecLegacy).           *)
(***************************************************************************)
\* C36: while the pipeline is Recording (the current recorder records before
\* and after the step, and the step is not a start of a recording), the
\* audio is not replaced and the playback position does not move backwards.
C36_RecordingOnlyAdvances ==
    [][ ( /\ recording /\ recording'
          /\ mediaRecorderRef /= 0 /\ Recording(mediaRecorderRef)
          /\ mediaRecorderRef' = mediaRecorderRef
          /\ recorders'[mediaRecorderRef].state = "recording" ) =>
            audio'.pos >= audio.pos
      ]_vars

\* C38: every file holds only chunks delivered by its own recorder, every
\* chunk in the buffer belongs to a recorder whose file is not built yet, and
\* the buffer is empty whenever the pipeline is Idle.
C38_FileHoldsOwnChunks ==
    /\ \A k \in 1..Len(files) :
           \A j \in 1..Len(files[k].chunks) : files[k].chunks[j] = files[k].recorder
    /\ \A j \in 1..Len(chunksRef) : FilesOf(chunksRef[j]) = {}
    /\ ~recording => chunksRef = << >>

\* Two recordings were made one after the other, each delivered a chunk and
\* each produced its file; the pipeline is Idle again.
C38_Witness ==
    /\ Len(files) = 2
    /\ files[1] = [recorder |-> 1, chunks |-> << 1 >>]
    /\ files[2] = [recorder |-> 2, chunks |-> << 2 >>]
    /\ ~recording /\ chunksRef = << >>

\* C39: the isPlaying flag is true exactly when the audio element is playing.
C39_FlagFollowsElement == isPlaying = audio.playing

====
